---- MODULE Spec2Model ----
(***************************************************************************)
(* AutoStatAgent: the hypothesis-testing engine (agents/hypothesis_testing *)
(* .py), the answer orchestrator (agents/answer_generator.py) and the part *)
(* of the entry points (main.py, app.py) that consumes their output.       *)
(*                                                                         *)
(* Text is modelled by TLA+ strings, character for character.  A DataFrame *)
(* is modelled by its profile: the column dtypes, and for each sample the  *)
(* code hands to pandas/scipy the facts those libraries compute from it    *)
(* (number of non-missing values, outcome of the Shapiro-Wilk test,        *)
(* p-value).  The libraries' numerical results are inputs of the model,    *)
(* drawn from bounded sets; every decision the repository's own code takes *)
(* on them is modelled as the code takes it.                               *)
(* Probabilities are integers in thousandths (alpha = 0.05 is 50).         *)
(***************************************************************************)
EXTENDS Integers, Sequences, FiniteSets, TLC

VARIABLES
    df,                 \* the dataset of the run (profile of the DataFrame)
    alpha,              \* significance level handed to answer_questions
    questions,          \* the list of question strings being answered
    idx,                \* answer_questions: number of questions processed
    answers,            \* answer_questions: the dict, as an ordered sequence of <<q, a>>
    escaped,            \* an exception left answer_questions
    pc,                 \* position of the run
    hypothesis_results, \* main: the filtered (q, a) pairs
    log,                \* answer_questions: what each processed question did, in order
    call,               \* the last direct call of a function, with its outcome
    max_corr_questions, \* the cap handed to generate_questions
    runs                \* the pipeline runs completed on df, in order

vars == <<df, alpha, questions, idx, answers, escaped, pc, hypothesis_results, log, call,
          max_corr_questions, runs>>

(***************************************************************************)
(* Bounds of the model.                                                    *)
(***************************************************************************)
MaxN == 3           \* largest number of rows of one category
MaxGroups == 3      \* largest number of categories of a categorical column
MaxQuestions == 2   \* longest question list

(***************************************************************************)
(* Strings.                                                                *)
(***************************************************************************)
Char(s, i) == SubSeq(s, i, i)

\* Python: sub in s
Contains(s, sub) ==
    \E i \in 1..(Len(s) - Len(sub) + 1) : SubSeq(s, i, i + Len(sub) - 1) = sub

\* Python: s.startswith(pre)
StartsWith(s, pre) == Len(pre) <= Len(s) /\ SubSeq(s, 1, Len(pre)) = pre

UpperChars == "ABCDEFGHIJKLMNOPQRSTUVWXYZ"
LowerChars == "abcdefghijklmnopqrstuvwxyz"

LowerMap == [c \in {Char(UpperChars, k) : k \in 1..26} |->
                Char(LowerChars, CHOOSE k \in 1..26 : Char(UpperChars, k) = c)]
UpperMap == [c \in {Char(LowerChars, k) : k \in 1..26} |->
                Char(UpperChars, CHOOSE k \in 1..26 : Char(LowerChars, k) = c)]
WordChars == DOMAIN LowerMap \cup DOMAIN UpperMap \cup {Char("0123456789_", k) : k \in 1..11}

LowerChar(c) == IF c \in DOMAIN LowerMap THEN LowerMap[c] ELSE c

\* the characters lo..hi of s in lower case (by halves)
RECURSIVE LowerRange(_, _, _)
LowerRange(s, lo, hi) ==
    IF lo > hi THEN ""
    ELSE IF lo = hi THEN LowerChar(Char(s, lo))
    ELSE LET mid == (lo + hi) \div 2
         IN  LowerRange(s, lo, mid) \o LowerRange(s, mid + 1, hi)

\* Python: q.lower()
Lower(s) == LowerRange(s, 1, Len(s))

\* regex \w on the characters the model's texts use
IsWordChar(c) == c \in WordChars

\* re.search(r"\bword\b", s)
WordSearch(word, s) ==
    \E i \in 1..(Len(s) - Len(word) + 1) :
        /\ SubSeq(s, i, i + Len(word) - 1) = word
        /\ (i = 1 \/ ~IsWordChar(Char(s, i - 1)))
        /\ (i + Len(word) - 1 = Len(s) \/ ~IsWordChar(Char(s, i + Len(word))))

\* position of the first single quote at or after i, 0 when there is none
NextQuote(s, i) ==
    IF \E j \in i..Len(s) : Char(s, j) = "'"
    THEN CHOOSE j \in i..Len(s) :
            Char(s, j) = "'" /\ \A k \in i..(j - 1) : Char(s, k) # "'"
    ELSE 0

\* re.findall(r"'([^']+)'", q), scanning from position i
RECURSIVE FindAllFrom(_, _)
FindAllFrom(s, i) ==
    LET a == NextQuote(s, i)
        b == IF a = 0 THEN 0 ELSE NextQuote(s, a + 1)
    IN  IF a = 0 \/ b = 0 THEN <<>>
        ELSE IF b = a + 1 THEN FindAllFrom(s, b)
        ELSE <<SubSeq(s, a + 1, b - 1)>> \o FindAllFrom(s, b + 1)

extract_columns_from_question(q) == FindAllFrom(q, 1)

UpperChar(c) == IF c \in DOMAIN UpperMap THEN UpperMap[c] ELSE c

RECURSIVE UpperRange(_, _, _)
UpperRange(s, lo, hi) ==
    IF lo > hi THEN ""
    ELSE IF lo = hi THEN UpperChar(Char(s, lo))
    ELSE LET mid == (lo + hi) \div 2
         IN  UpperRange(s, lo, mid) \o UpperRange(s, mid + 1, hi)

\* Python: test_type.upper()
Upper(s) == UpperRange(s, 1, Len(s))

(***************************************************************************)
(* The characters of the sources outside ASCII, each written as its code   *)
(* point between angle brackets; no other text of the model holds "<U+".   *)
(***************************************************************************)
Sub0 == "<U+2080>"          \* SUBSCRIPT ZERO
Sub1 == "<U+2081>"          \* SUBSCRIPT ONE
EmDash == "<U+2014>"        \* EM DASH
EAcute == "<U+00E9>"        \* LATIN SMALL LETTER E WITH ACUTE
RightQuote == "<U+2019>"    \* RIGHT SINGLE QUOTATION MARK
\* the three characters main.py and app.py hold where SUBSCRIPT ZERO was meant:
\* its UTF-8 bytes E2 82 80 read as Windows-1252
Mojibake0 == "<U+00E2>" \o "<U+201A>" \o "<U+20AC>"

H0_ == "H" \o Sub0
H1_ == "H" \o Sub1

(***************************************************************************)
(* Python values and outcomes of a call.                                   *)
(***************************************************************************)
\* float("nan"): a number outside every range the model uses, never compared by <
NaN == 0 - 1000000
None == "None"

\* a dict and a str, told apart by isinstance(result, dict)
Dict(d) == [kind |-> "dict", d |-> d]
Str(s) == [kind |-> "str", s |-> s]

\* a call returns a value or raises; routine names the scipy routine it ran
Return(v, routine) == [tag |-> "return", value |-> v, routine |-> routine]
Raise(msg, routine) == [tag |-> "raise", msg |-> msg, routine |-> routine]

\* Python: d.get(key, default)
Get(d, key, default) == IF key \in DOMAIN d THEN d[key] ELSE default

\* str(KeyError(col)): the repr of the missing key
KeyErrorText(col) == "'" \o col \o "'"

\* Python: p < alpha on floats; every comparison with NaN is False
LessThan(p, a) == p # NaN /\ p < a

(***************************************************************************)
(* The DataFrame's profile.                                                *)
(*   dtypes     column name -> dtype, in column order by `columns`         *)
(*   series     numeric column -> the sample df[col].dropna():             *)
(*              n values, Shapiro-Wilk p-value shapiro_p (thousandths)     *)
(*   strata     <<cat, num>> -> one record per category of cat: the rows   *)
(*              of the category (0: a declared category no row has), and   *)
(*              the sample of num's non-missing values in those rows       *)
(*   crosstab   <<cat1, cat2>> -> shape of pd.crosstab (r, k) and the      *)
(*              effect size of its chi-square statistic (v, hundredths)    *)
(*   p_value    the p-value the scipy routine returns on this data         *)
(*   corr       <<num1, num2>> -> the Pearson and the Spearman coefficient *)
(*              of the two columns, in hundredths                          *)
(*   empty_raises  whether the installed scipy raises on an empty sample   *)
(***************************************************************************)
HasColumn(d, col) == col \in DOMAIN d.dtypes

\* pd.api.types.is_numeric_dtype(df[col])
is_numeric_dtype(d, col) == d.dtypes[col] \in {"int64", "float64"}

\* df[col].dtype == object or pd.api.types.is_categorical_dtype(df[col])
is_categorical(d, col) == d.dtypes[col] \in {"object", "category"}

(***************************************************************************)
(* agents/hypothesis_testing.py                                            *)
(***************************************************************************)
_hypothesis_text(test_type, col1, col2) ==
    CASE test_type = "t-test" ->
           << H0_ \o ": The mean of '" \o col1 \o "' is equal across the two groups in '" \o col2 \o "'.",
              H1_ \o ": The mean of '" \o col1 \o "' is different across the two groups in '" \o col2 \o "'." >>
      [] test_type = "anova" ->
           << H0_ \o ": The mean of '" \o col1 \o "' is equal across all groups in '" \o col2 \o "'.",
              H1_ \o ": At least one group mean of '" \o col1 \o "' in '" \o col2 \o "' is different." >>
      [] test_type = "mann-whitney" ->
           << H0_ \o ": The distribution of '" \o col1 \o "' is the same across the two groups in '" \o col2 \o "'.",
              H1_ \o ": The distribution of '" \o col1 \o "' differs between the two groups in '" \o col2 \o "'." >>
      [] test_type = "kruskal" ->
           << H0_ \o ": The distribution of '" \o col1 \o "' is the same across all groups in '" \o col2 \o "'.",
              H1_ \o ": At least one group distribution of '" \o col1 \o "' in '" \o col2 \o "' is different." >>
      [] test_type = "chi-square" ->
           << H0_ \o ": '" \o col1 \o "' and '" \o col2 \o "' are independent.",
              H1_ \o ": '" \o col1 \o "' and '" \o col2 \o "' are not independent." >>
      [] test_type = "correlation" ->
           << H0_ \o ": There is no correlation between '" \o col1 \o "' and '" \o col2 \o "'.",
              H1_ \o ": There is a correlation between '" \o col1 \o "' and '" \o col2 \o "'." >>
      [] OTHER -> << "", "" >>

\* shapiro(...)[1] > 0.05, on p-values in thousandths
ShapiroPasses(series) == series.shapiro_p > 50

_is_normal(series) ==
    IF series.n < 3 THEN FALSE ELSE ShapiroPasses(series)

\* the largest subsample _is_normal hands to shapiro
SampleCap == 500

\* a variant of SubsampleLen that hands the whole sample to shapiro
SubsampleLen_Whole(series) == series.n

\* min(500, len(series)): the size of series.sample(...)
SubsampleLen(series) == IF SampleCap < series.n THEN SampleCap ELSE series.n

\* one call of _is_normal: whether shapiro was run, on how many values, and the
\* value returned
IsNormalCall(series) ==
    [tested |-> ~(series.n < 3),
     examined |-> IF series.n < 3 THEN 0 ELSE SubsampleLen(series),
     value |-> _is_normal(series)]

\* the groups df.groupby(cat_col, observed=True) iterates over: the categories
\* that at least one row has
ObservedStrata(d, cat_col, num_col) ==
    SelectSeq(d.strata[<<cat_col, num_col>>], LAMBDA s : s.rows >= 1)

\* [group[num_col].dropna() for _, group in df.groupby(cat_col, observed=True)]
GroupSamples(d, cat_col, num_col) ==
    LET obs == ObservedStrata(d, cat_col, num_col)
    IN  [i \in 1..Len(obs) |-> [n |-> obs[i].n, shapiro_p |-> obs[i].shapiro_p]]

\* a variant of AllNormal that looks at the first two groups only
AllNormal_FirstTwo(groups) ==
    \A i \in 1..(IF Len(groups) < 2 THEN Len(groups) ELSE 2) : _is_normal(groups[i])

AllNormal(groups) == \A i \in 1..Len(groups) : _is_normal(groups[i])

SomeEmpty(groups) == \E i \in 1..Len(groups) : groups[i].n = 0

\* a variant of Significance with <= for <
Significance_Inclusive(p, a) ==
    IF p # NaN /\ p <= a THEN "Significant" ELSE "Not significant"

\* "Significant" if p < alpha else "Not significant"
Significance(p, a) == IF LessThan(p, a) THEN "Significant" ELSE "Not significant"

\* a variant of SelectGroupTest with any() for all() in the two-group branch
SelectGroupTest_AnyNormal(groups) ==
    IF Len(groups) = 2
    THEN IF \E i \in 1..Len(groups) : _is_normal(groups[i])
         THEN [test_type |-> "t-test", routine |-> "ttest_ind", effect |-> "cohens_d"]
         ELSE [test_type |-> "mann-whitney", routine |-> "mannwhitneyu", effect |-> None]
    ELSE IF AllNormal(groups)
         THEN [test_type |-> "anova", routine |-> "f_oneway", effect |-> "eta_squared"]
         ELSE [test_type |-> "kruskal", routine |-> "kruskal", effect |-> None]

\* the branch of test_numeric_categorical: the test type and the scipy routine
SelectGroupTest(groups) ==
    IF Len(groups) = 2
    THEN IF AllNormal(groups)
         THEN [test_type |-> "t-test", routine |-> "ttest_ind", effect |-> "cohens_d"]
         ELSE [test_type |-> "mann-whitney", routine |-> "mannwhitneyu", effect |-> None]
    ELSE IF AllNormal(groups)
         THEN [test_type |-> "anova", routine |-> "f_oneway", effect |-> "eta_squared"]
         ELSE [test_type |-> "kruskal", routine |-> "kruskal", effect |-> None]

test_numeric_categorical(d, cat_col, num_col, a) ==
    LET groups == GroupSamples(d, cat_col, num_col)
        sel == SelectGroupTest(groups)
        p == IF SomeEmpty(groups) THEN NaN ELSE d.p_value
        h == _hypothesis_text(sel.test_type, num_col, cat_col)
    IN  IF Len(groups) < 2
        THEN Return(Str("Not enough groups for hypothesis testing."), None)
        ELSE IF sel.routine = "mannwhitneyu" /\ SomeEmpty(groups) /\ d.empty_raises
        THEN Raise("x and y must be of nonzero size.", sel.routine)
        ELSE Return(Dict([test |-> Upper(sel.test_type),
                          columns |-> <<num_col, cat_col>>,
                          H0 |-> h[1],
                          H1 |-> h[2],
                          p_value |-> p,
                          alpha |-> a,
                          significance |-> Significance(p, a),
                          effect_size |-> sel.effect]),
                    sel.routine)

\* min(k - 1, r - 1), the divisor of the effect size
CramersDivisor(table) == IF table.k - 1 < table.r - 1 THEN table.k - 1 ELSE table.r - 1

\* np.sqrt(phi2 / min(k - 1, r - 1)), in hundredths (table.v); with one row or one
\* column chi2 and phi2 are 0 and the numpy division 0.0 / 0 gives nan
_cramers_v(table) == IF CramersDivisor(table) = 0 THEN NaN ELSE table.v

test_categorical_categorical(d, cat1, cat2, a) ==
    LET table == d.crosstab[<<cat1, cat2>>]
        \* chi2_contingency: with one row or one column the table has 0 degrees
        \* of freedom, the statistic is 0 and the p-value 1
        p == IF table.r = 1 \/ table.k = 1 THEN 1000 ELSE d.p_value
        h == _hypothesis_text("chi-square", cat1, cat2)
    IN  IF table.r = 0 \/ table.k = 0
        THEN Return(Str("Contingency table is empty or invalid."), None)
        ELSE Return(Dict([test |-> "Chi-square",
                          columns |-> <<cat1, cat2>>,
                          H0 |-> h[1],
                          H1 |-> h[2],
                          p_value |-> p,
                          alpha |-> a,
                          significance |-> Significance(p, a),
                          effect_size_cramers_v |-> _cramers_v(table)]),
                    "chi2_contingency")

\* a variant of SelectCorrelation with or for and
SelectCorrelation_Either(series1, series2) ==
    IF _is_normal(series1) \/ _is_normal(series2)
    THEN [method |-> "Pearson", routine |-> "pearsonr"]
    ELSE [method |-> "Spearman", routine |-> "spearmanr"]

\* the branch of test_numeric_numeric
SelectCorrelation(series1, series2) ==
    IF _is_normal(series1) /\ _is_normal(series2)
    THEN [method |-> "Pearson", routine |-> "pearsonr"]
    ELSE [method |-> "Spearman", routine |-> "spearmanr"]

\* a variant of CorrelationStrength with >= for >
CorrelationStrength_Inclusive(stat) ==
    IF stat # NaN /\ (stat >= 70 \/ 0 - stat >= 70) THEN "Strong"
    ELSE IF stat # NaN /\ (stat >= 30 \/ 0 - stat >= 30) THEN "Moderate"
    ELSE "Weak"

\* "Strong" if abs(stat) > 0.7 else "Moderate" if abs(stat) > 0.3 else "Weak",
\* on a coefficient in hundredths; every comparison with NaN is False
CorrelationStrength(stat) ==
    IF stat # NaN /\ (stat > 70 \/ 0 - stat > 70) THEN "Strong"
    ELSE IF stat # NaN /\ (stat > 30 \/ 0 - stat > 30) THEN "Moderate"
    ELSE "Weak"

test_numeric_numeric(d, col1, col2, a) ==
    LET series1 == d.series[col1]
        series2 == d.series[col2]
        sel == SelectCorrelation(series1, series2)
        p == IF series1.n < 2 THEN NaN ELSE d.p_value
        stat == IF series1.n < 2 THEN NaN ELSE d.corr[<<col1, col2>>][sel.method]
        h == _hypothesis_text("correlation", col1, col2)
    IN  IF series1.n # series2.n
        THEN Raise(IF sel.routine = "pearsonr"
                   THEN "x and y must have the same length."
                   ELSE "all the input array dimensions except for the concatenation axis must match exactly",
                   sel.routine)
        ELSE Return(Dict([test |-> sel.method \o " Correlation",
                          columns |-> <<col1, col2>>,
                          H0 |-> h[1],
                          H1 |-> h[2],
                          stat |-> stat,
                          p_value |-> p,
                          alpha |-> a,
                          significance |-> Significance(p, a),
                          correlation_strength |-> CorrelationStrength(stat)]),
                    sel.routine)

(***************************************************************************)
(* Number formatting.                                                      *)
(***************************************************************************)
Digits == "0123456789"

RECURSIVE NatStr(_)
NatStr(n) == IF n < 10 THEN Char(Digits, n + 1)
             ELSE NatStr(n \div 10) \o Char(Digits, (n % 10) + 1)

Abs(v) == IF v < 0 THEN 0 - v ELSE v

\* f"{v:.2f}" of a float given in hundredths
Fmt2(v) ==
    IF v = NaN THEN "nan"
    ELSE (IF v < 0 THEN "-" ELSE "") \o NatStr(Abs(v) \div 100) \o "."
         \o Char(Digits, ((Abs(v) \div 10) % 10) + 1) \o Char(Digits, (Abs(v) % 10) + 1)

\* f"{v:.1f}" of a float given in tenths
Fmt1(v) ==
    (IF v < 0 THEN "-" ELSE "") \o NatStr(Abs(v) \div 10) \o "." \o Char(Digits, (Abs(v) % 10) + 1)

(***************************************************************************)
(* agents/answer_generator.py                                              *)
(***************************************************************************)
format_test_result(result) ==
    IF result.kind # "dict"
    THEN result.s
    ELSE LET h0 == Get(result.d, "H0", "N/A")
             h1 == Get(result.d, "H1", "N/A")
             test_name == Get(result.d, "test", "N/A")
             conclusion == Get(result.d, "result", "N/A")
         IN  "Test: " \o test_name \o "\n"
             \o H0_ \o ": " \o h0 \o "\n"
             \o H1_ \o ": " \o h1 \o "\n"
             \o "Conclusion: " \o conclusion

skip_patterns == <<"mean", "average", "max", "min", "median", "sum", "count">>

\* a variant of IsSimpleMetric that searches the words without the \b anchors
IsSimpleMetric_Substring(q_lower) ==
    \E k \in 1..Len(skip_patterns) : Contains(q_lower, skip_patterns[k])

\* any(re.search(p, q_lower) for p in skip_patterns)
IsSimpleMetric(q_lower) ==
    \E k \in 1..Len(skip_patterns) : WordSearch(skip_patterns[k], q_lower)

\* a variant of Dispatch with the outlier branch moved before the skew branch
Dispatch_OutlierFirst(q_lower, cols) ==
    IF Contains(q_lower, "correlation") /\ Len(cols) = 2 THEN "correlation"
    ELSE IF Contains(q_lower, "outlier") /\ Len(cols) = 1 THEN "outlier"
    ELSE IF Contains(q_lower, "skew") /\ Len(cols) = 1 THEN "skew"
    ELSE IF Contains(q_lower, "kurtosis") /\ Len(cols) = 1 THEN "kurtosis"
    ELSE IF Contains(q_lower, "different") /\ Len(cols) = 2 THEN "different"
    ELSE IF Contains(q_lower, "association") /\ Len(cols) = 2 THEN "association"
    ELSE IF Contains(q_lower, "missing") /\ Len(cols) = 1 THEN "missing"
    ELSE IF Contains(q_lower, "duplicate") THEN "duplicate"
    ELSE IF Contains(q_lower, "trend") /\ Len(cols) = 1 THEN "trend"
    ELSE "none"

\* the if/elif chain of answer_questions: the branch a question is handled by
Dispatch(q_lower, cols) ==
    IF Contains(q_lower, "correlation") /\ Len(cols) = 2 THEN "correlation"
    ELSE IF Contains(q_lower, "skew") /\ Len(cols) = 1 THEN "skew"
    ELSE IF Contains(q_lower, "kurtosis") /\ Len(cols) = 1 THEN "kurtosis"
    ELSE IF Contains(q_lower, "outlier") /\ Len(cols) = 1 THEN "outlier"
    ELSE IF Contains(q_lower, "different") /\ Len(cols) = 2 THEN "different"
    ELSE IF Contains(q_lower, "association") /\ Len(cols) = 2 THEN "association"
    ELSE IF Contains(q_lower, "missing") /\ Len(cols) = 1 THEN "missing"
    ELSE IF Contains(q_lower, "duplicate") THEN "duplicate"
    ELSE IF Contains(q_lower, "trend") /\ Len(cols) = 1 THEN "trend"
    ELSE "none"

\* what the body of the try block does for one question
NoResult == [kind |-> "none"]
NoEntry(branch) == [tag |-> "skip", branch |-> branch, routine |-> None, result |-> NoResult]
Entry(branch, text) ==
    [tag |-> "entry", branch |-> branch, text |-> text, routine |-> None, result |-> NoResult]
Raised(branch, msg, routine) ==
    [tag |-> "raise", branch |-> branch, msg |-> msg, routine |-> routine, result |-> NoResult]

\* a variant of FromTest that stores nothing when the test returned a message
FromTest_SkipMessages(branch, out) ==
    IF out.tag = "raise"
    THEN Raised(branch, out.msg, out.routine)
    ELSE IF out.value.kind = "str"
    THEN [tag |-> "skip", branch |-> branch, routine |-> out.routine, result |-> out.value]
    ELSE [tag |-> "entry", branch |-> branch, text |-> format_test_result(out.value),
          routine |-> out.routine, result |-> out.value]

\* answers[q] = AnswerGenerator.format_test_result(result), or the test raised
FromTest(branch, out) ==
    IF out.tag = "raise"
    THEN Raised(branch, out.msg, out.routine)
    ELSE [tag |-> "entry", branch |-> branch, text |-> format_test_result(out.value),
          routine |-> out.routine, result |-> out.value]

DifferentBranch(d, cols, a) ==
    LET cat_col == cols[1]
        num_col == cols[2]
    IN  IF ~HasColumn(d, num_col) THEN Raised("different", KeyErrorText(num_col), None)
        ELSE IF ~is_numeric_dtype(d, num_col) THEN NoEntry("different")
        ELSE IF ~HasColumn(d, cat_col) THEN Raised("different", KeyErrorText(cat_col), None)
        ELSE IF ~is_categorical(d, cat_col) THEN NoEntry("different")
        ELSE FromTest("different", test_numeric_categorical(d, cat_col, num_col, a))

\* a variant of CorrelationBranch that goes on to the group-difference branch when
\* a column is not numeric
CorrelationBranch_ThenDifferent(d, cols, a) ==
    IF ~HasColumn(d, cols[1]) THEN Raised("correlation", KeyErrorText(cols[1]), None)
    ELSE IF ~is_numeric_dtype(d, cols[1]) THEN DifferentBranch(d, cols, a)
    ELSE IF ~HasColumn(d, cols[2]) THEN Raised("correlation", KeyErrorText(cols[2]), None)
    ELSE IF ~is_numeric_dtype(d, cols[2]) THEN DifferentBranch(d, cols, a)
    ELSE FromTest("correlation", test_numeric_numeric(d, cols[1], cols[2], a))

CorrelationBranch(d, cols, a) ==
    IF ~HasColumn(d, cols[1]) THEN Raised("correlation", KeyErrorText(cols[1]), None)
    ELSE IF ~is_numeric_dtype(d, cols[1]) THEN NoEntry("correlation")
    ELSE IF ~HasColumn(d, cols[2]) THEN Raised("correlation", KeyErrorText(cols[2]), None)
    ELSE IF ~is_numeric_dtype(d, cols[2]) THEN NoEntry("correlation")
    ELSE FromTest("correlation", test_numeric_numeric(d, cols[1], cols[2], a))

\* a variant of SkewBranch without the dtype test
SkewBranch_NoTypeCheck(d, col) ==
    IF ~HasColumn(d, col) THEN Raised("skew", KeyErrorText(col), None)
    ELSE LET skew_val == d.descr[col].skew
             skew_type == IF skew_val # NaN /\ Abs(skew_val) > 100
                          THEN "Highly skewed" ELSE "Relatively symmetric"
         IN  Entry("skew", "'" \o col \o "' skewness = " \o Fmt2(skew_val)
                           \o " (" \o skew_type \o ").")

SkewBranch(d, col) ==
    IF ~HasColumn(d, col) THEN Raised("skew", KeyErrorText(col), None)
    ELSE IF ~is_numeric_dtype(d, col) THEN NoEntry("skew")
    ELSE LET skew_val == d.descr[col].skew
             skew_type == IF skew_val # NaN /\ Abs(skew_val) > 100
                          THEN "Highly skewed" ELSE "Relatively symmetric"
         IN  Entry("skew", "'" \o col \o "' skewness = " \o Fmt2(skew_val)
                           \o " (" \o skew_type \o ").")

KurtosisBranch(d, col) ==
    IF ~HasColumn(d, col) THEN Raised("kurtosis", KeyErrorText(col), None)
    ELSE IF ~is_numeric_dtype(d, col) THEN NoEntry("kurtosis")
    ELSE LET kurt_val == d.descr[col].kurt
             shape == IF kurt_val # NaN /\ kurt_val > 300 THEN "Leptokurtic (heavy tails)"
                      ELSE IF kurt_val # NaN /\ kurt_val < 300 THEN "Platykurtic (light tails)"
                      ELSE "Mesokurtic (normal-like)"
         IN  Entry("kurtosis", "'" \o col \o "' kurtosis = " \o Fmt2(kurt_val)
                               \o " (" \o shape \o ").")

\* the non-missing values of a column are kept in ascending order, each with
\* the number of rows that hold it; Total is the number of rows from the i-th
\* value on (the sum of a mask over these rows)
RECURSIVE Total(_, _)
Total(vals, i) == IF i > Len(vals) THEN 0 ELSE vals[i].count + Total(vals, i + 1)

\* the k-th smallest value
ValueAt(vals, k) ==
    vals[CHOOSE i \in 1..Len(vals) :
            Total(SubSeq(vals, 1, i - 1), 1) < k /\ k <= Total(SubSeq(vals, 1, i), 1)].v

\* Series.quantile(num / 4), linear interpolation, in hundredths; NaN on no value
Quantile(vals, num) ==
    LET n == Total(vals, 1)
        lo == ((n - 1) * num) \div 4
        fr == ((n - 1) * num) % 4
        a == ValueAt(vals, lo + 1)
        b == IF fr = 0 THEN a ELSE ValueAt(vals, lo + 2)
    IN  IF n = 0 THEN NaN ELSE 100 * a + 25 * fr * (b - a)

\* a variant of AnsOutliers that counts the values above the upper bound only
AnsOutliers_UpperOnly(d, col) ==
    LET Q1 == d.descr[col].q1
        Q3 == d.descr[col].q3
        IQR == Q3 - Q1
        above(v) == 200 * v > 2 * Q3 + 3 * IQR
    IN  IF Q1 = NaN THEN 0 ELSE Total(SelectSeq(d.descr[col].values, LAMBDA e : above(e.v)), 1)

\* Q1, Q3 = df[col].quantile([0.25, 0.75]); IQR = Q3 - Q1;
\* ((df[col] < Q1 - 1.5 * IQR) | (df[col] > Q3 + 1.5 * IQR)).sum()
\* (quantiles in hundredths, both sides of a comparison doubled; a comparison
\* with NaN is False)
AnsOutliers(d, col) ==
    LET Q1 == d.descr[col].q1
        Q3 == d.descr[col].q3
        IQR == Q3 - Q1
        outside(v) == 200 * v < 2 * Q1 - 3 * IQR \/ 200 * v > 2 * Q3 + 3 * IQR
    IN  IF Q1 = NaN THEN 0 ELSE Total(SelectSeq(d.descr[col].values, LAMBDA e : outside(e.v)), 1)

OutlierBranch(d, col) ==
    IF ~HasColumn(d, col) THEN Raised("outlier", KeyErrorText(col), None)
    ELSE IF ~is_numeric_dtype(d, col) THEN NoEntry("outlier")
    ELSE Entry("outlier", "'" \o col \o "' has " \o NatStr(AnsOutliers(d, col))
                          \o " outliers detected using IQR method.")

AssociationBranch(d, cols, a) ==
    LET cat1 == cols[1]
        cat2 == cols[2]
    IN  IF ~HasColumn(d, cat1) THEN Raised("association", KeyErrorText(cat1), None)
        ELSE IF ~is_categorical(d, cat1) THEN NoEntry("association")
        ELSE IF ~HasColumn(d, cat2) THEN Raised("association", KeyErrorText(cat2), None)
        ELSE IF ~is_categorical(d, cat2) THEN NoEntry("association")
        ELSE FromTest("association", test_categorical_categorical(d, cat1, cat2, a))

MissingBranch(d, col) ==
    IF ~HasColumn(d, col) THEN Raised("missing", KeyErrorText(col), None)
    ELSE LET missing_pct == d.descr[col].missing
         IN  IF d.descr[col].nulls > 0
             THEN Entry("missing", "Missing data in '" \o col \o "': " \o Fmt1(missing_pct) \o "%.")
             ELSE Entry("missing", "No missing data in '" \o col \o "'.")

DuplicateBranch(d) ==
    Entry("duplicate", "Dataset contains " \o NatStr(d.duplicates) \o " duplicate rows.")

TrendBranch(col) ==
    Entry("trend", "Trend analysis for '" \o col
                   \o "' requires time-series decomposition " \o EmDash \o " not automated here.")

(***************************************************************************)
(* Inputs: datasets.                                                       *)
(***************************************************************************)
ShapiroPs == {50, 200}      \* Shapiro-Wilk p-values: 0.05 (the threshold itself) and 0.2
PValues == {10, 50, 90}     \* p-values of the tests: below, at and above alpha = 0.05
Alphas == {50}              \* alpha = 0.05, the default every caller uses
\* correlation coefficients: -0.85, -0.7, 0.3, 0.31, 0.7, 0.71
RValues == {0 - 85, 0 - 70, 30, 31, 70, 71}

\* the sample of n non-missing values; shapiro needs 3 values to give a p-value
Samples ==
    {[n |-> n, shapiro_p |-> NaN] : n \in 0..(IF MaxN < 2 THEN MaxN ELSE 2)}
    \cup {[n |-> n, shapiro_p |-> p] : n \in 3..MaxN, p \in ShapiroPs}

\* a category of MaxN rows with the sample of its non-missing numeric values,
\* or a declared category that no row has
Strata ==
    {[rows |-> MaxN, n |-> s.n, shapiro_p |-> s.shapiro_p] : s \in Samples}
    \cup {[rows |-> 0, n |-> 0, shapiro_p |-> NaN]}

SeqsUpTo(S, k) == UNION {[1..m -> S] : m \in 0..k}

RECURSIVE SumN(_, _)
SumN(st, i) == IF i > Len(st) THEN 0 ELSE st[i].n + SumN(st, i + 1)

\* a / b rounded to the nearest integer, halves to the even one (as "%.1f" does on
\* the exactly representable values the model uses)
RoundDiv(a, b) ==
    LET q == a \div b
        r == a % b
    IN  IF 2 * r > b \/ (2 * r = b /\ q % 2 = 1) THEN q + 1 ELSE q

\* n values in ascending order without a value far from the others: the values
\* 1 and 2, half of the rows each
PlainValues(n) ==
    SelectSeq(<< [v |-> 1, count |-> n \div 2], [v |-> 2, count |-> n - n \div 2] >>,
              LAMBDA e : e.count > 0)

\* n values of which the smallest and the largest are far from the others
WithOutliers(n) ==
    << [v |-> 0 - 100, count |-> 1] >> \o PlainValues(n - 2) \o << [v |-> 100, count |-> 1] >>

\* what the descriptive branches read of a column with the non-missing values
\* vals: skew() and kurtosis() in hundredths, the values and their quartiles, the
\* number of rows and of missing values, and isnull().mean() * 100 as
\* f"{missing_pct:.1f}" shows it, in tenths
DescrOf(rows, vals) ==
    LET n == Total(vals, 1)
    IN  [skew |-> IF n < 3 THEN NaN ELSE 150,
         kurt |-> IF n < 4 THEN NaN ELSE 420,
         values |-> vals,
         q1 |-> Quantile(vals, 1),
         q3 |-> Quantile(vals, 3),
         rows |-> rows,
         nulls |-> IF rows = 0 THEN 0 ELSE rows - n,
         missing |-> IF rows = 0 THEN 0 ELSE RoundDiv((rows - n) * 1000, rows)]

\* a column of n values none of which is an outlier
Descr(rows, n) == DescrOf(rows, PlainValues(n))

\* a dataset with a categorical column g and a numeric column x
GroupedFrame(st, p, raises) ==
    [dtypes |-> [c \in {"g", "x"} |->
                    IF c = "x" THEN "float64"
                    ELSE IF \E i \in 1..Len(st) : st[i].rows = 0 THEN "category" ELSE "object"],
     series |-> [c \in {"x"} |-> [n |-> SumN(st, 1), shapiro_p |-> IF SumN(st, 1) < 3 THEN NaN ELSE 50]],
     strata |-> [k \in {<<"g", "x">>} |-> st],
     crosstab |-> [k \in {} |-> 0],
     descr |-> [c \in {"g", "x"} |->
                    IF c = "x" THEN Descr(MaxN * Len(SelectSeq(st, LAMBDA e : e.rows >= 1)), SumN(st, 1))
                    ELSE Descr(0, 0)],
     duplicates |-> 0,
     p_value |-> p,
     empty_raises |-> raises]

\* a dataset with two numeric columns x and y
PairFrame(s1, s2, p, r) ==
    [dtypes |-> [c \in {"x", "y"} |-> "float64"],
     series |-> [c \in {"x", "y"} |-> IF c = "x" THEN s1 ELSE s2],
     strata |-> [k \in {} |-> 0],
     crosstab |-> [k \in {} |-> 0],
     descr |-> [c \in {"x", "y"} |-> Descr(MaxN, IF c = "x" THEN s1.n ELSE s2.n)],
     duplicates |-> 0,
     p_value |-> p,
     corr |-> [k \in {<<"x", "y">>} |-> [Pearson |-> r, Spearman |-> r]],
     empty_raises |-> FALSE]

\* a dataset with two categorical columns g and h, whose cross-tabulation has
\* r rows and k columns (0 by 0: no row has both values); with one row or one
\* column the chi-square statistic is 0 and its p-value 1
TableFrame(r, k, p) ==
    [dtypes |-> [c \in {"g", "h"} |-> "object"],
     series |-> [c \in {} |-> 0],
     strata |-> [c \in {} |-> 0],
     crosstab |-> [c \in {<<"g", "h">>} |-> [r |-> r, k |-> k, v |-> 50]],
     descr |-> [c \in {"g", "h"} |-> Descr(0, 0)],
     duplicates |-> 0,
     p_value |-> IF r = 1 \/ k = 1 THEN 1000 ELSE p,
     empty_raises |-> FALSE]

GroupedFrames ==
    {GroupedFrame(st, p, raises) : st \in SeqsUpTo(Strata, MaxGroups), p \in PValues,
                                   raises \in BOOLEAN}
PairFrames ==
    {PairFrame(s1, s2, p, r) : s1 \in Samples, s2 \in Samples, p \in PValues, r \in RValues}
TableFrames ==
    {TableFrame(0, 0, p) : p \in PValues}
    \cup {TableFrame(r, k, p) : r \in 1..MaxGroups, k \in 1..MaxGroups, p \in PValues}

\* the answered datasets: columns x, y (numeric), g, h (categorical, h with two
\* values on every row) and d (datetime); each category of g holds MaxN rows whose
\* x values are all present and pass Shapiro-Wilk, or all missing
FullStratum == [rows |-> MaxN, n |-> MaxN, shapiro_p |-> IF MaxN < 3 THEN NaN ELSE 200]
EmptyStratum == [rows |-> MaxN, n |-> 0, shapiro_p |-> NaN]

AnswerStrata ==
    { <<>>, <<FullStratum>>, <<FullStratum, FullStratum>>, <<FullStratum, EmptyStratum>>,
      <<FullStratum, FullStratum, FullStratum>> }

NumObserved(st) == Len(SelectSeq(st, LAMBDA s : s.rows >= 1))

AnswerFrame(st, sy, p, raises) ==
    LET nx == SumN(st, 1)
        rows == MaxN * NumObserved(st)
    IN  [dtypes |-> [c \in {"x", "y", "g", "h", "d"} |->
                        CASE c \in {"x", "y"} -> "float64"
                          [] c \in {"g", "h"} -> "object"
                          [] OTHER -> "datetime64[ns]"],
         series |-> [c \in {"x", "y"} |->
                        IF c = "x" THEN [n |-> nx, shapiro_p |-> IF nx < 3 THEN NaN ELSE 200]
                        ELSE sy],
         strata |-> [k \in {<<"g", "x">>} |-> st],
         crosstab |-> [k \in {<<"g", "h">>} |->
                        IF rows = 0 THEN [r |-> 0, k |-> 0, v |-> NaN]
                        ELSE [r |-> NumObserved(st), k |-> 2, v |-> 50]],
         descr |-> [c \in {"x", "y", "g", "h", "d"} |->
                        CASE c = "x" -> Descr(rows, nx)
                          [] c = "y" -> Descr(rows, sy.n)
                          [] OTHER -> Descr(0, 0)],
         duplicates |-> 0,
         p_value |-> p,
         corr |-> [k \in {<<"x", "y">>} |-> [Pearson |-> 85, Spearman |-> 85]],
         empty_raises |-> raises]

\* y: as many values as x, or one fewer (one more missing value than x)
YSamples(st) ==
    LET nx == SumN(st, 1)
    IN  {[n |-> n, shapiro_p |-> IF n < 3 THEN NaN ELSE 200] :
            n \in {nx} \cup (IF nx >= 1 THEN {nx - 1} ELSE {})}

AnswerFrames ==
    UNION {{AnswerFrame(st, sy, p, raises) :
                sy \in YSamples(st), p \in {10, 90},
                raises \in {FALSE} \cup (IF \E i \in 1..Len(st) : st[i].n = 0 THEN {TRUE} ELSE {})} :
           st \in AnswerStrata}

(***************************************************************************)
(* agents/question_generator.py.  A generated question is kept with the    *)
(* column names its template embedded between single quotes.               *)
(*   columns    the column names in column order                           *)
(*   nunique    categorical column -> number of distinct values            *)
(***************************************************************************)
\* df.select_dtypes(include=[...]).columns.tolist()
ColumnsOfType(d, types) == SelectSeq(d.columns, LAMBDA c : d.dtypes[c] \in types)
NumericCols(d) == ColumnsOfType(d, {"int64", "float64"})
CatCols(d) == ColumnsOfType(d, {"object", "category"})
DatetimeCols(d) == ColumnsOfType(d, {"datetime64[ns]", "datetime64[ns, UTC]"})

Question(text, cols) == [text |-> text, cols |-> cols]

RECURSIVE Concat(_, _)
Concat(seqs, k) == IF k > Len(seqs) THEN <<>> ELSE seqs[k] \o Concat(seqs, k + 1)

\* for i in range(n): for j in range(i+1, n): the pairs in the order visited
RECURSIVE PairsFrom(_, _, _)
PairsFrom(n, i, j) ==
    IF i > n THEN <<>>
    ELSE IF j > n THEN PairsFrom(n, i + 1, i + 2)
    ELSE << <<i, j>> >> \o PairsFrom(n, i, j + 1)
Pairs(n) == PairsFrom(n, 1, 2)

\* shapiro(...)[1] if len(df[col].dropna()) > 3 else 1, in thousandths
GenShapiroP(series) == IF series.n > 3 THEN series.shapiro_p ELSE 1000

\* "Pearson" if (p1 > 0.05 and p2 > 0.05) else "Spearman"
GenMethod(series1, series2) ==
    IF GenShapiroP(series1) > 50 /\ GenShapiroP(series2) > 50 THEN "Pearson" ELSE "Spearman"

\* the body of the pair loop up to the test of the correlation: whether the pair
\* qualifies, and the question it would add
CorrCandidate(d, col1, col2) ==
    LET series1 == d.series[col1]
        series2 == d.series[col2]
        method == GenMethod(series1, series2)
        corr == d.corr[<<col1, col2>>][method]
        strength == IF Abs(corr) > 70 THEN "strong" ELSE "moderate"
    IN  [qualifies |-> series1.n # 0 /\ series2.n # 0 /\ corr # NaN /\ Abs(corr) > 30,
         question |->
            Question("Does the " \o strength \o " " \o method \o " correlation (r=" \o Fmt2(corr)
                     \o ") between '" \o col1 \o "' and '" \o col2
                     \o "' indicate potential causal or confounding factors worth testing?",
                     <<col1, col2>>)]

\* a variant of MayAddCorr that ignores the cap
MayAddCorr_Uncapped(added, max) == TRUE

\* corr_questions_added < max_corr_questions
MayAddCorr(added, max) == added < max

\* the pair loop from the k-th pair on, with corr_questions_added = added
RECURSIVE CorrQuestions(_, _, _, _, _)
CorrQuestions(d, pairs, k, added, max) ==
    IF k > Len(pairs) THEN <<>>
    ELSE LET nums == NumericCols(d)
             c == CorrCandidate(d, nums[pairs[k][1]], nums[pairs[k][2]])
         IN  IF c.qualifies /\ MayAddCorr(added, max)
             THEN <<c.question>> \o CorrQuestions(d, pairs, k + 1, added + 1, max)
             ELSE CorrQuestions(d, pairs, k + 1, added, max)

DistributionQuestions(d, col) ==
    LET skew_val == d.descr[col].skew
        kurt_val == d.descr[col].kurt
    IN  (IF skew_val # NaN /\ Abs(skew_val) > 100
         THEN << Question("'" \o col \o "' is highly skewed (skew=" \o Fmt2(skew_val)
                          \o "); should transformation or robust statistics be used?", <<col>>) >>
         ELSE <<>>)
        \o
        (IF kurt_val # NaN /\ kurt_val > 300
         THEN << Question("'" \o col \o "' has high kurtosis (" \o Fmt2(kurt_val)
                          \o "); are heavy tails affecting hypothesis test validity?", <<col>>) >>
         ELSE <<>>)

GroupQuestions(d, cat) ==
    LET nums == NumericCols(d)
    IN  IF d.nunique[cat] <= 10
        THEN [k \in 1..Len(nums) |->
                Question("Do different '" \o cat \o "' categories show significant differences in '"
                         \o nums[k] \o "' means (t-test/ANOVA) or medians (Kruskal-Wallis) depending on normality?",
                         <<cat, nums[k]>>)]
        ELSE <<>>

AssociationQuestions(d) ==
    LET cats == CatCols(d)
        pairs == Pairs(Len(cats))
        kept == SelectSeq(pairs, LAMBDA pr : d.nunique[cats[pr[1]]] <= 10 /\ d.nunique[cats[pr[2]]] <= 10)
    IN  [k \in 1..Len(kept) |->
            Question("Is there an association between '" \o cats[kept[k][1]] \o "' and '"
                     \o cats[kept[k][2]] \o "' (Chi-square test with Cram" \o EAcute \o "r" \o RightQuote
                     \o "s V effect size)?",
                     <<cats[kept[k][1]], cats[kept[k][2]]>>)]

TrendQuestions(d, col) ==
    LET nums == NumericCols(d)
    IN  << Question("Are there seasonal or trend components in '" \o col
                    \o "' detectable via time-series decomposition?", <<col>>) >>
        \o [k \in 1..Len(nums) |->
              Question("Does '" \o nums[k] \o "' change significantly over time based on '" \o col
                       \o "' (trend analysis, Mann-Kendall test)?", <<nums[k], col>>)]

\* Q1 = df[col].quantile(0.25); Q3 = df[col].quantile(0.75); IQR = Q3 - Q1;
\* ((df[col] < Q1 - 1.5*IQR) | (df[col] > Q3 + 1.5*IQR)).sum()
GenOutliers(d, col) ==
    LET Q1 == d.descr[col].q1
        Q3 == d.descr[col].q3
        IQR == Q3 - Q1
        outside(v) == 200 * v < 2 * Q1 - 3 * IQR \/ 200 * v > 2 * Q3 + 3 * IQR
    IN  IF Q1 = NaN THEN 0 ELSE Total(SelectSeq(d.descr[col].values, LAMBDA e : outside(e.v)), 1)

OutlierQuestions(d, col) ==
    LET outliers == GenOutliers(d, col)
    IN  IF outliers > 0
        THEN << Question("Do the " \o NatStr(outliers) \o " outliers in '" \o col
                         \o "' materially influence model parameters or statistical significance?",
                         <<col>>) >>
        ELSE <<>>

\* for col in df.columns[df.isnull().any()]: ... if missing_pct > 5
MissingQuestions(d, col) ==
    LET missing_pct == d.descr[col].missing
    IN  IF d.descr[col].nulls * 100 > 5 * d.descr[col].rows
        THEN << Question("With " \o Fmt1(missing_pct) \o "% missing in '" \o col
                         \o "', is advanced imputation (e.g., MICE) preferable over deletion?",
                         <<col>>) >>
        ELSE <<>>

DuplicateQuestions(d) ==
    IF d.duplicates > 0
    THEN << Question("Could duplicate rows introduce bias in model coefficients or inflate statistical significance?", <<>>) >>
    ELSE <<>>

\* def generate_questions(df, max_corr_questions=5): the cap of a call without
\* the argument, as main.py and app.py call it
DefaultCorrCap == 5

\* generate_questions(df, max_corr_questions): the questions in the order appended
generate_questions(d, max) ==
    LET nums == NumericCols(d)
        cats == CatCols(d)
        dts == DatetimeCols(d)
    IN  CorrQuestions(d, Pairs(Len(nums)), 1, 0, max)
        \o Concat([k \in 1..Len(nums) |-> DistributionQuestions(d, nums[k])], 1)
        \o Concat([k \in 1..Len(cats) |-> GroupQuestions(d, cats[k])], 1)
        \o AssociationQuestions(d)
        \o Concat([k \in 1..Len(dts) |-> TrendQuestions(d, dts[k])], 1)
        \o Concat([k \in 1..Len(nums) |-> OutlierQuestions(d, nums[k])], 1)
        \o Concat([k \in 1..Len(d.columns) |-> MissingQuestions(d, d.columns[k])], 1)
        \o DuplicateQuestions(d)

Texts(qs) == [k \in 1..Len(qs) |-> qs[k].text]

(***************************************************************************)
(* The random subsample.  series.sample(k) has no random_state: for a      *)
(* sample above the cap, each call of shapiro sees another subsample and   *)
(* its p-value is one of those the subsamples of the data can give.        *)
(***************************************************************************)
BigCols(d) == {c \in DOMAIN d.series : d.series[c].n > SampleCap}

\* the p-values the subsamples drawn during one call can give, for each column
\* that is subsampled
Draws(d) == [BigCols(d) -> ShapiroPs]

\* the dataset as one call sees it: the Shapiro-Wilk p-value of a subsampled
\* column is the one of the subsample drawn
Seen(d, draw) ==
    [d EXCEPT !.series = [c \in DOMAIN d.series |->
                            IF c \in BigCols(d)
                            THEN [n |-> d.series[c].n, shapiro_p |-> draw[c]]
                            ELSE d.series[c]]]

(***************************************************************************)
(* Inputs: the datasets of the whole pipeline.  Numeric columns nums, the   *)
(* categorical columns g and h (two values each) and the datetime column   *)
(* d.  The rows are 2 * MaxN, or SampleCap + 1 (big, for the datasets with *)
(* the numeric columns x and y), or 2 or 3 (small, the same columns).  In  *)
(* a dirty dataset the first numeric column misses one value and, with     *)
(* more than 3 rows, has 2 outliers, and one row is a duplicate.           *)
(***************************************************************************)
MaxCorrCap == 2     \* largest max_corr_questions a caller passes

NumericNames ==
    { <<>>, <<"x">>, <<"x", "y">>, <<"x", "y", "z">>, <<"it's", "y">>, <<"skew_x", "count">> }
CorrValues == {20, 85}      \* Pearson coefficients 0.2 and 0.85

SeqToSet(sq) == {sq[k] : k \in 1..Len(sq)}

\* the dataset of rows rows with the numeric columns nums
FrameOfRows(nums, rows, sp, cv, dirty) ==
    LET first(c) == Len(nums) >= 1 /\ c = nums[1]
        n(c) == IF dirty /\ first(c) THEN rows - 1 ELSE rows
        half1 == rows \div 2
        half2 == rows - half1
        group(rws, miss) ==
            [rows |-> rws, n |-> rws - miss,
             shapiro_p |-> IF rws - miss < 3 THEN NaN ELSE 200]
        pairs == Pairs(Len(nums))
        numset == SeqToSet(nums)
    IN  [columns |-> nums \o <<"g", "h", "d">>,
         dtypes |-> [c \in numset \cup {"g", "h", "d"} |->
                        CASE c \in numset -> "float64"
                          [] c \in {"g", "h"} -> "object"
                          [] OTHER -> "datetime64[ns]"],
         series |-> [c \in numset |->
                        [n |-> n(c),
                         shapiro_p |-> IF n(c) > SampleCap \/ n(c) < 3 THEN NaN ELSE sp]],
         strata |-> [k \in {"g", "h"} \X numset |->
                        << group(half1, IF dirty /\ first(k[2]) THEN 1 ELSE 0),
                           group(half2, 0) >>],
         crosstab |-> [k \in {<<"g", "h">>} |-> [r |-> 2, k |-> 2, v |-> 50]],
         corr |-> [k \in {<<nums[pairs[i][1]], nums[pairs[i][2]]>> : i \in 1..Len(pairs)} |->
                     LET i == CHOOSE i \in 1..Len(pairs) :
                                 k = <<nums[pairs[i][1]], nums[pairs[i][2]]>>
                         complete == IF dirty /\ first(k[1]) THEN rows - 1 ELSE rows
                     IN  IF complete < 2 THEN [Pearson |-> NaN, Spearman |-> NaN]
                         ELSE [Pearson |-> cv[i],
                               Spearman |-> IF rows <= 3 THEN cv[i] ELSE cv[i] - 10]],
         descr |-> [c \in numset \cup {"g", "h", "d"} |->
                        IF c \in numset
                        THEN DescrOf(rows, IF dirty /\ first(c) /\ rows > 3
                                           THEN WithOutliers(n(c)) ELSE PlainValues(n(c)))
                        ELSE Descr(rows, rows)],
         nunique |-> [c \in {"g", "h"} |-> 2],
         duplicates |-> IF dirty /\ rows > 3 THEN 1 ELSE 0,
         p_value |-> 10,
         empty_raises |-> FALSE]

PipelineFrame(nums, big, sp, cv, dirty) ==
    FrameOfRows(nums, IF big THEN SampleCap + 1 ELSE 2 * MaxN, sp, cv, dirty)

\* the small datasets: 2 or 3 rows, x and y on a line (both coefficients are 1)
SmallFrame(rows, sp, dirty) ==
    FrameOfRows(<<"x", "y">>, rows, sp, [i \in {1} |-> 100], dirty)

PipelineFrames ==
    {SmallFrame(rows, sp, dirty) : rows \in {2, 3}, sp \in ShapiroPs, dirty \in BOOLEAN}
    \cup
    UNION {{PipelineFrame(nums, big, sp, cv, dirty) :
                big \in (IF nums = <<"x", "y">> THEN BOOLEAN ELSE {FALSE}),
                sp \in ShapiroPs, dirty \in BOOLEAN,
                cv \in [1..Len(Pairs(Len(nums))) -> CorrValues]} :
           nums \in NumericNames}

\* every question generate_questions writes on these datasets
GeneratedPool ==
    UNION UNION {{SeqToSet(Texts(generate_questions(Seen(d, draw), m))) :
                draw \in Draws(d), m \in (0..MaxCorrCap) \cup {DefaultCorrCap}} :
           d \in PipelineFrames}

(***************************************************************************)
(* Inputs: questions.  The first eight are questions generate_questions    *)
(* writes (agents/question_generator.py, lines 31, 40, 42, 49, 57, 62, 76, *)
(* 84, 90); the others are supplied by a caller.                           *)
(***************************************************************************)
QuestionPool ==
    { "Does the strong Pearson correlation (r=0.85) between 'x' and 'y' indicate potential causal or confounding factors worth testing?",
      "'x' is highly skewed (skew=1.50); should transformation or robust statistics be used?",
      "'x' has high kurtosis (4.20); are heavy tails affecting hypothesis test validity?",
      "Do different 'g' categories show significant differences in 'x' means (t-test/ANOVA) or medians (Kruskal-Wallis) depending on normality?",
      "Is there an association between 'g' and 'h' (Chi-square test with Cram" \o EAcute \o "r" \o RightQuote \o "s V effect size)?",
      "Are there seasonal or trend components in 'd' detectable via time-series decomposition?",
      "Do the 2 outliers in 'x' materially influence model parameters or statistical significance?",
      "With 33.3% missing in 'x', is advanced imputation (e.g., MICE) preferable over deletion?",
      "Could duplicate rows introduce bias in model coefficients or inflate statistical significance?",
      "Is there a correlation between 'x' and 'zz'?",
      "What is the mean of 'x'?",
      "Is the Correlation of 'g' and 'x' different for outlier rows?",
      "Is the missing skew of 'x' an outlier or a duplicate trend?",
      "Are duplicate rows of 'g' and 'x' different?",
      "Is 'g' skewed?",
      "Does 'g' have high kurtosis?",
      "Is there an outlier in 'g'?",
      "Are 'x' and 'y' different?",
      "Are 'g' and 'h' different?",
      "Is there an association between 'g' and 'x'?",
      "Is the MAX of 'x' an outlier?" }


\* a variant of Parse that looks for the keywords outside the quoted names
Parse_NamesLeftOut(q) ==
    LET RECURSIVE OutsideQuotes(_, _)
        OutsideQuotes(s, i) ==
            LET a == NextQuote(s, i)
                b == IF a = 0 THEN 0 ELSE NextQuote(s, a + 1)
            IN  IF a = 0 \/ b = 0 THEN SubSeq(s, i, Len(s))
                ELSE SubSeq(s, i, a) \o "'" \o OutsideQuotes(s, b + 1)
        q_lower == Lower(OutsideQuotes(q, 1))
        cols == extract_columns_from_question(q)
    IN  [simple |-> IsSimpleMetric(q_lower), cols |-> cols, branch |-> Dispatch(q_lower, cols)]

\* the first statements of the try block: q.lower(), the skip test, the columns;
\* and the branch of the if/elif chain they lead to
Parse(q) ==
    LET q_lower == Lower(q)
        cols == extract_columns_from_question(q)
    IN  [simple |-> IsSimpleMetric(q_lower), cols |-> cols, branch |-> Dispatch(q_lower, cols)]

\* Parse of the pool's questions, computed once
ParsedPool == [q \in QuestionPool \cup GeneratedPool |-> Parse(q)]
Parsed(q) == IF q \in DOMAIN ParsedPool THEN ParsedPool[q] ELSE Parse(q)

\* the body of the try block for question q
TryQuestion(d, q, a) ==
    LET simple == Parsed(q).simple
        cols == Parsed(q).cols
        branch == Parsed(q).branch
    IN  IF simple THEN NoEntry("simple")
        ELSE CASE branch = "correlation" -> CorrelationBranch(d, cols, a)
               [] branch = "skew" -> SkewBranch(d, cols[1])
               [] branch = "kurtosis" -> KurtosisBranch(d, cols[1])
               [] branch = "outlier" -> OutlierBranch(d, cols[1])
               [] branch = "different" -> DifferentBranch(d, cols, a)
               [] branch = "association" -> AssociationBranch(d, cols, a)
               [] branch = "missing" -> MissingBranch(d, cols[1])
               [] branch = "duplicate" -> DuplicateBranch(d)
               [] branch = "trend" -> TrendBranch(cols[1])
               [] OTHER -> NoEntry("none")

\* the dict: answers[q] = a keeps the place of a key already present
HasKey(ans, q) == \E i \in 1..Len(ans) : ans[i][1] = q
Lookup(ans, q) == ans[CHOOSE i \in 1..Len(ans) : ans[i][1] = q][2]
\* a variant of Put that stores every assignment as a new item
Put_AlwaysAppend(ans, q, a) == Append(ans, <<q, a>>)

Put(ans, q, a) ==
    IF HasKey(ans, q)
    THEN [i \in 1..Len(ans) |-> IF ans[i][1] = q THEN <<q, a>> ELSE ans[i]]
    ELSE Append(ans, <<q, a>>)
Keys(ans) == [i \in 1..Len(ans) |-> ans[i][1]]

\* a variant of Caught for "except KeyError": what a scipy routine raises gets out
Caught_OnlyKeyError(out) == out.tag = "raise" /\ out.routine = None

\* except Exception as e: every exception the try block raises is caught
Caught(out) == out.tag = "raise"

\* one iteration of the for loop: the dict afterwards
AnswerOne(ans, out, q) ==
    IF out.tag = "entry" THEN Put(ans, q, out.text)
    ELSE IF Caught(out) THEN Put(ans, q, "Error answering question: " \o out.msg)
    ELSE ans

(***************************************************************************)
(* main.py, app.py: the hypothesis results kept for the report.            *)
(***************************************************************************)
\* "Test:" in a and ("H?" in a or "H0" in a), the first marker as the files hold it
IsHypothesisText(a) ==
    Contains(a, "Test:") /\ (Contains(a, "H" \o Mojibake0) \/ Contains(a, "H0"))

\* [(q, a) for q, a in answers.items() if ...]
ExtractHypothesisResults(ans) == SelectSeq(ans, LAMBDA e : IsHypothesisText(e[2]))

(***************************************************************************)
(* The run of main(): answer_questions over the question list, one         *)
(* iteration of its for loop per step, then the extraction of the          *)
(* hypothesis results.                                                     *)
(***************************************************************************)
\* three questions of the pool that every dataset answers
RepeatPool ==
    { "'x' is highly skewed (skew=1.50); should transformation or robust statistics be used?",
      "Are there seasonal or trend components in 'd' detectable via time-series decomposition?",
      "Could duplicate rows introduce bias in model coefficients or inflate statistical significance?" }

\* the lists of at most MaxQuestions questions of the pool, and the lists one
\* longer of the three questions above (a question asked again after another one)
QuestionLists ==
    UNION {[1..m -> QuestionPool] : m \in 0..MaxQuestions}
    \cup [1..(MaxQuestions + 1) -> RepeatPool]

NoCall == [fn |-> None]

\* the three generated questions that lead to a test function
TestQuestions ==
    { "Does the strong Pearson correlation (r=0.85) between 'x' and 'y' indicate potential causal or confounding factors worth testing?",
      "Do different 'g' categories show significant differences in 'x' means (t-test/ANOVA) or medians (Kruskal-Wallis) depending on normality?",
      "Is there an association between 'g' and 'h' (Chi-square test with Cram" \o EAcute \o "r" \o RightQuote \o "s V effect size)?" }

\* answer_questions(df, questions, alpha) is entered: a dataset of AnswerFrames
\* with a list of QuestionLists, or the dataset of SampleCap + 1 rows (columns x
\* and y: every normality check on them draws a subsample) with a list of
\* different questions that lead to a test
Init ==
    /\ \/ /\ df \in AnswerFrames
          /\ questions \in QuestionLists
       \/ /\ df = PipelineFrame(<<"x", "y">>, TRUE, 200, [i \in {1} |-> 85], FALSE)
          /\ questions \in UNION {{l \in [1..m -> TestQuestions] :
                                        \A i, j \in 1..m : l[i] = l[j] => i = j} :
                                    m \in 1..MaxQuestions}
    /\ alpha \in Alphas
    /\ idx = 0
    /\ answers = <<>>
    /\ escaped = FALSE
    /\ pc = "answering"
    /\ hypothesis_results = <<>>
    /\ log = <<>>
    /\ call = NoCall
    /\ max_corr_questions = DefaultCorrCap
    /\ runs = <<>>

\* a variant of DatasetAfterAnswer that drops the duplicate rows in place
DatasetAfterAnswer_Deduplicated(d) == [d EXCEPT !.duplicates = 0]

\* the dataset after one iteration of answer_questions: the body reads df through
\* df[col], dropna(), groupby(), crosstab(), skew(), quantile(), isnull() and
\* duplicated(), which build new objects; no statement assigns into df
DatasetAfterAnswer(d) == d

\* for q in questions: try: ... except Exception as e: answers[q] = ...
\* (each question's test draws its own subsamples)
AnswerStep ==
    /\ pc = "answering"
    /\ idx < Len(questions)
    /\ \E draw \in Draws(df) :
        LET q == questions[idx + 1]
            out == TryQuestion(Seen(df, draw), q, alpha)
        IN  /\ log' = Append(log, [q |-> q, out |-> out, before |-> answers])
            /\ IF out.tag = "raise" /\ ~Caught(out)
               THEN /\ escaped' = TRUE
                    /\ pc' = "failed"
                    /\ UNCHANGED <<answers, idx>>
               ELSE /\ answers' = AnswerOne(answers, out, q)
                    /\ idx' = idx + 1
                    /\ UNCHANGED <<escaped, pc>>
    /\ df' = DatasetAfterAnswer(df)
    /\ UNCHANGED <<alpha, questions, hypothesis_results, call,
                   max_corr_questions, runs>>

\* return answers
ReturnAnswers ==
    /\ pc = "answering"
    /\ idx = Len(questions)
    /\ pc' = "answered"
    /\ UNCHANGED <<df, alpha, questions, idx, answers, escaped, hypothesis_results, log, call,
                   max_corr_questions, runs>>

\* main.py, step 5: hypothesis_results = [...]
Extract ==
    /\ pc = "answered"
    /\ hypothesis_results' = ExtractHypothesisResults(answers)
    /\ pc' = "extracted"
    /\ UNCHANGED <<df, alpha, questions, idx, answers, escaped, log, call,
                   max_corr_questions, runs>>

Next == AnswerStep \/ ReturnAnswers \/ Extract

Spec == Init /\ [][Next]_vars

(***************************************************************************)
(* The pipeline of main() run twice on one dataset: generate_questions,    *)
(* called without a cap, then answer_questions on the questions generated. *)
(***************************************************************************)
InitPipeline ==
    /\ df \in PipelineFrames
    /\ alpha \in Alphas
    /\ max_corr_questions = DefaultCorrCap
    /\ questions = <<>>
    /\ idx = 0
    /\ answers = <<>>
    /\ escaped = FALSE
    /\ pc = "start"
    /\ hypothesis_results = <<>>
    /\ log = <<>>
    /\ call = NoCall
    /\ runs = <<>>

\* the dataset after generate_questions: it reads df through select_dtypes(),
\* df[col], dropna(), sample(), corr(), skew(), kurtosis(), nunique(), quantile(),
\* isnull() and duplicated(); no statement assigns into df
DatasetAfterGenerate(d) == d

\* questions = QuestionGenerator.generate_questions(df)
Generate ==
    /\ pc = "start"
    /\ \E draw \in Draws(df) :
        LET generated == generate_questions(Seen(df, draw), max_corr_questions)
        IN  /\ call' = [fn |-> "generate_questions", seen |-> Seen(df, draw),
                        generated |-> generated]
            /\ questions' = Texts(generated)
    /\ df' = DatasetAfterGenerate(df)
    /\ pc' = "answering"
    /\ UNCHANGED <<alpha, idx, answers, escaped, hypothesis_results, log,
                   max_corr_questions, runs>>

\* the run is over: what it produced is kept, and the pipeline is started again
\* on the same dataset, once
EndRun ==
    /\ pc = "answered"
    /\ runs' = Append(runs, [questions |-> questions,
                             tests |-> [i \in 1..Len(log) |-> log[i].out.routine],
                             answers |-> answers])
    /\ IF Len(runs) = 0
       THEN /\ pc' = "start"
            /\ questions' = <<>>
            /\ idx' = 0
            /\ answers' = <<>>
            /\ log' = <<>>
       ELSE /\ pc' = "done"
            /\ UNCHANGED <<questions, idx, answers, log>>
    /\ UNCHANGED <<df, alpha, escaped, hypothesis_results, call, max_corr_questions>>

NextPipeline == Generate \/ AnswerStep \/ ReturnAnswers \/ EndRun

SpecPipeline == InitPipeline /\ [][NextPipeline]_vars

(***************************************************************************)
(* The three test functions called on their own.                           *)
(***************************************************************************)
TestAlphas == {10, 50}

InitTests ==
    /\ df = [dtypes |-> <<>>]
    /\ alpha \in TestAlphas
    /\ questions = <<>>
    /\ idx = 0
    /\ answers = <<>>
    /\ escaped = FALSE
    /\ pc = "tests"
    /\ hypothesis_results = <<>>
    /\ log = <<>>
    /\ call = NoCall
    /\ max_corr_questions = DefaultCorrCap
    /\ runs = <<>>

CallNumericCategorical ==
    /\ pc = "tests"
    /\ \E d \in GroupedFrames :
        /\ df' = d
        /\ call' = [fn |-> "test_numeric_categorical", cat_col |-> "g", num_col |-> "x",
                    out |-> test_numeric_categorical(d, "g", "x", alpha)]
    /\ pc' = "called"
    /\ UNCHANGED <<alpha, questions, idx, answers, escaped, hypothesis_results, log,
                   max_corr_questions, runs>>

CallCategoricalCategorical ==
    /\ pc = "tests"
    /\ \E d \in TableFrames :
        /\ df' = d
        /\ call' = [fn |-> "test_categorical_categorical", cat1 |-> "g", cat2 |-> "h",
                    out |-> test_categorical_categorical(d, "g", "h", alpha)]
    /\ pc' = "called"
    /\ UNCHANGED <<alpha, questions, idx, answers, escaped, hypothesis_results, log,
                   max_corr_questions, runs>>

CallNumericNumeric ==
    /\ pc = "tests"
    /\ \E d \in PairFrames :
        /\ df' = d
        /\ call' = [fn |-> "test_numeric_numeric", col1 |-> "x", col2 |-> "y",
                    out |-> test_numeric_numeric(d, "x", "y", alpha)]
    /\ pc' = "called"
    /\ UNCHANGED <<alpha, questions, idx, answers, escaped, hypothesis_results, log,
                   max_corr_questions, runs>>

\* the samples _is_normal is called on: up to 4 values, and around the cap
NormalityInputs ==
    {[n |-> n, shapiro_p |-> NaN] : n \in 0..2}
    \cup {[n |-> n, shapiro_p |-> p] :
             n \in {3, 4, SampleCap - 1, SampleCap, SampleCap + 1, 2 * SampleCap},
             p \in ShapiroPs}

CallIsNormal ==
    /\ pc = "tests"
    /\ \E series \in NormalityInputs :
        call' = [fn |-> "_is_normal", series |-> series, out |-> IsNormalCall(series)]
    /\ pc' = "called"
    /\ UNCHANGED <<df, alpha, questions, idx, answers, escaped, hypothesis_results, log,
                   max_corr_questions, runs>>

\* answer_questions(df, [q], alpha): the whole call on a list of one question
CallAnswerQuestions ==
    /\ pc = "tests"
    /\ \E d \in AnswerFrames, q \in TestQuestions :
        LET out == TryQuestion(d, q, alpha)
        IN  /\ df' = d
            /\ questions' = <<q>>
            /\ answers' = AnswerOne(<<>>, out, q)
            /\ call' = [fn |-> "answer_questions", out |-> out]
    /\ idx' = 1
    /\ pc' = "called"
    /\ UNCHANGED <<alpha, escaped, hypothesis_results, log,
                   max_corr_questions, runs>>

\* generate_questions(df, max_corr_questions) called with a cap of the caller's
CallGenerateQuestions ==
    /\ pc = "tests"
    /\ \E d \in PipelineFrames, m \in 0..MaxCorrCap :
        \E draw \in Draws(d) :
            LET generated == generate_questions(Seen(d, draw), m)
            IN  /\ df' = DatasetAfterGenerate(d)
                /\ max_corr_questions' = m
                /\ questions' = Texts(generated)
                /\ call' = [fn |-> "generate_questions", seen |-> Seen(d, draw),
                            generated |-> generated]
    /\ pc' = "called"
    /\ UNCHANGED <<alpha, idx, answers, escaped, hypothesis_results, log, runs>>

NextTests ==
    \/ CallNumericCategorical
    \/ CallCategoricalCategorical
    \/ CallNumericNumeric
    \/ CallIsNormal
    \/ CallAnswerQuestions
    \/ CallGenerateQuestions

SpecTests == InitTests /\ [][NextTests]_vars

(***************************************************************************)
(* Properties of answer_questions (specification Spec).                    *)
(***************************************************************************)
Finished == pc \in {"answered", "extracted"}

\* the dict after the i-th question was processed
After(i) == IF i < Len(log) THEN log[i + 1].before ELSE answers

ErrorPrefix == "Error answering question: "
MalformedQuestion == "Is there a correlation between 'x' and 'zz'?"

\* C1: no exception leaves answer_questions, and a question whose processing
\* failed has no entry or an entry that starts with 'Error answering question: '.
C1_NeverRaises ==
    /\ ~escaped
    /\ pc # "failed"
    /\ \A i \in 1..Len(log) :
          log[i].out.tag = "raise" =>
             \/ ~HasKey(After(i), log[i].q)
             \/ StartsWith(Lookup(After(i), log[i].q), ErrorPrefix)

\* C1, its case: the question naming the missing column 'zz' was processed, its
\* lookup raised, and the call returned with the error text stored for it.
C1_Witness ==
    /\ pc = "answered"
    /\ \E i \in 1..Len(log) :
          /\ log[i].q = MalformedQuestion
          /\ log[i].out.tag = "raise"
          /\ HasKey(answers, MalformedQuestion)
          /\ Lookup(answers, MalformedQuestion) = ErrorPrefix \o "'zz'"

\* what answer_questions leaves for q when q is the only question of the list and
\* its normality checks see the subsamples of draw
Alone(q, draw) ==
    LET out == TryQuestion(Seen(df, draw), q, alpha)
    IN  CASE out.tag = "entry" -> << <<q, out.text>> >>
          [] out.tag = "raise" -> << <<q, ErrorPrefix \o out.msg>> >>
          [] OTHER -> <<>>

\* C2, as claimed: a failed or skipped question does not end the batch (the i-th
\* step processes the i-th question and the call returns after the last one), and
\* what the dict holds for a question is the one thing it holds when the question
\* is asked alone, wherever the question stands and whatever precedes it.
C2_Claimed ==
    /\ \A i \in 1..Len(log) : log[i].q = questions[i]
    /\ Finished => Len(log) = Len(questions)
    /\ \A i \in 1..Len(log) : \A draw \in Draws(df) :
          SelectSeq(After(i), LAMBDA e : e[1] = log[i].q) = Alone(log[i].q, draw)
    /\ Finished =>
          \A i \in 1..Len(questions) : \A draw \in Draws(df) :
             SelectSeq(answers, LAMBDA e : e[1] = questions[i]) = Alone(questions[i], draw)

\* the dispatch table as the design states it: keyword, number of quoted names
\* (-1: any), in priority order
DispatchTable ==
    << <<"correlation", 2>>, <<"skew", 1>>, <<"kurtosis", 1>>, <<"outlier", 1>>,
       <<"different", 2>>, <<"association", 2>>, <<"missing", 1>>, <<"duplicate", 0 - 1>>,
       <<"trend", 1>> >>

RowMatches(k, q) ==
    /\ Contains(Lower(q), DispatchTable[k][1])
    /\ DispatchTable[k][2] \in {0 - 1, Len(extract_columns_from_question(q))}

MatchingRows(q) == {k \in 1..Len(DispatchTable) : RowMatches(k, q)}

\* the rows matching each question of the pool, computed once
MatchingRowsPool == [q \in QuestionPool |-> MatchingRows(q)]

FirstMatch(q) ==
    LET rows == IF q \in DOMAIN MatchingRowsPool THEN MatchingRowsPool[q]
                ELSE MatchingRows(q)
    IN  IF rows = {} THEN "none"
        ELSE DispatchTable[CHOOSE k \in rows : \A j \in rows : k <= j][1]

\* C6: a question that is not skipped as a simple metric is handled by the first
\* row of the dispatch table that matches it.
C6_DispatchOrder ==
    \A i \in 1..Len(log) :
        log[i].out.branch # "simple" => log[i].out.branch = FirstMatch(log[i].q)

\* C6, its case: a question with the keywords missing, skew, outlier, duplicate
\* and trend and one quoted column was handled by the skew branch.
C6_Witness ==
    \E i \in 1..Len(log) :
        /\ log[i].q = "Is the missing skew of 'x' an outlier or a duplicate trend?"
        /\ Cardinality(MatchingRows(log[i].q)) = 5
        /\ log[i].out.branch = "skew"
        /\ log[i].out.tag = "entry"

\* the test function reported insufficient data: it returned a message, not a dict
InsufficientData(i) == log[i].out.result.kind = "str"

\* C7, as claimed: a question whose test reports insufficient data gets no entry.
C7_Claimed ==
    \A i \in 1..Len(log) : InsufficientData(i) => ~HasKey(After(i), log[i].q)

\* C7, amended: a question whose test reports insufficient data gets an entry
\* whose text is the message of the test, which is not an error string.
C7_MessageStored ==
    \A i \in 1..Len(log) :
        InsufficientData(i) =>
            /\ HasKey(After(i), log[i].q)
            /\ Lookup(After(i), log[i].q) = log[i].out.result.s
            /\ log[i].out.result.s \in { "Not enough groups for hypothesis testing.",
                                         "Contingency table is empty or invalid." }
            /\ ~StartsWith(Lookup(After(i), log[i].q), ErrorPrefix)

\* C7, its case: the group test found one group and the chi-square test an empty
\* table, and both messages are in the dict.
C7_Witness ==
    /\ pc = "answered"
    /\ \E i \in 1..Len(answers) : answers[i][2] = "Not enough groups for hypothesis testing."
    /\ \E i \in 1..Len(answers) : answers[i][2] = "Contingency table is empty or invalid."

\* the entry of q was rendered from the dict r of a test function
RenderedFrom(i) == log[i].out.tag = "entry" /\ log[i].out.result.kind = "dict"

\* C9, as claimed: the text rendered from a test result has the line
\* 'Conclusion: <significance>' and carries the test name, H0 and H1.
C9_Claimed ==
    \A i \in 1..Len(log) :
        RenderedFrom(i) =>
            LET r == log[i].out.result.d
                text == log[i].out.text
            IN  /\ Contains(text, "Conclusion: " \o r.significance)
                /\ Contains(text, "Test: " \o r.test)
                /\ Contains(text, r.H0)
                /\ Contains(text, r.H1)

\* the questions whose entry in the returned dict was rendered from a test result
RenderedQuestions == {log[i].q : i \in {j \in 1..Len(log) : RenderedFrom(j)}}

\* C10, as claimed: the hypothesis results are exactly the entries rendered from a
\* test result.
C10_Claimed ==
    pc = "extracted" =>
        hypothesis_results = SelectSeq(answers, LAMBDA e : e[1] \in RenderedQuestions)

\* the columns a question names, in the order it names them
Named(q) == Parsed(q).cols

\* the branch selected for q finds a column of a type it cannot work on
TypeMismatch(q) ==
    LET b == FirstMatch(q)
        cols == Named(q)
        numeric(c) == df.dtypes[c] \in {"int64", "float64"}
        categorical(c) == df.dtypes[c] \in {"object", "category"}
    IN  /\ \A k \in 1..Len(cols) : cols[k] \in DOMAIN df.dtypes
        /\ \/ b = "correlation" /\ \E k \in 1..2 : ~numeric(cols[k])
           \/ b \in {"skew", "kurtosis", "outlier"} /\ ~numeric(cols[1])
           \/ b = "different" /\ (~categorical(cols[1]) \/ ~numeric(cols[2]))
           \/ b = "association" /\ \E k \in 1..2 : ~categorical(cols[k])

\* C11: a question whose selected branch finds its columns of an incompatible
\* type gets no entry and no error string: nothing is stored for it.
C11_MismatchSkipped ==
    \A i \in 1..Len(log) :
        (log[i].out.branch # "simple" /\ TypeMismatch(log[i].q)) =>
            /\ log[i].out.tag = "skip"
            /\ ~HasKey(After(i), log[i].q)
            /\ Finished => ~HasKey(answers, log[i].q)

\* C11, its case: a skew question about the categorical column g and a
\* group-difference question about two numeric columns were processed and the
\* call returned without an entry for either.
C11_Witness ==
    /\ pc = "answered"
    /\ Len(log) = 2
    /\ log[1].q = "Is 'g' skewed?"
    /\ log[2].q = "Are 'x' and 'y' different?"
    /\ log[1].out.branch = "skew"
    /\ log[2].out.branch = "different"
    /\ answers = <<>>

\* the words of the simple-metric trigger set
MetricWords == {"mean", "average", "max", "min", "median", "sum", "count"}

\* the maximal runs of letters, digits and underscores of s that start at or
\* after position i
RECURSIVE WordsFrom(_, _)
WordsFrom(s, i) ==
    IF i > Len(s) THEN {}
    ELSE IF ~IsWordChar(Char(s, i)) THEN WordsFrom(s, i + 1)
    ELSE LET ends == {j \in i..Len(s) : \A k \in i..j : IsWordChar(Char(s, k))}
             e == CHOOSE j \in ends : \A k \in ends : k <= j
         IN  {SubSeq(s, i, e)} \cup WordsFrom(s, e + 1)

\* whether the lowercased question has a trigger word as a whole word, and whether
\* it has one inside a longer word; computed once for the pool
MetricWordsPool ==
    [q \in QuestionPool |->
        LET words == WordsFrom(Lower(q), 1)
        IN  [whole |-> words \cap MetricWords # {},
             inside |-> \E w \in words \ MetricWords : \E m \in MetricWords : Contains(w, m)]]

\* C12: a question with a trigger word as a whole word gets no entry, whatever
\* else it holds; a question that has trigger words only inside longer words is
\* not skipped as a simple metric.
C12_SimpleMetricSkipped ==
    \A i \in 1..Len(log) :
        LET m == MetricWordsPool[log[i].q]
        IN  /\ m.whole => /\ log[i].out.tag = "skip"
                          /\ log[i].out.branch = "simple"
                          /\ ~HasKey(After(i), log[i].q)
            /\ ~m.whole => log[i].out.branch # "simple"

\* C12, its case: the question with MAX and the keyword outlier was skipped, and
\* the generated question with 'means' and 'medians' was answered by its branch.
C12_Witness ==
    /\ pc = "answered"
    /\ Len(log) = 2
    /\ log[1].q = "Is the MAX of 'x' an outlier?"
    /\ MetricWordsPool[log[1].q].whole
    /\ log[1].out.branch = "simple"
    /\ MetricWordsPool[log[2].q].inside
    /\ ~MetricWordsPool[log[2].q].whole
    /\ log[2].out.branch = "different"
    /\ log[2].out.tag = "entry"
    /\ Keys(answers) = <<log[2].q>>

\* position of the first occurrence of q in the input list
FirstAsked(q) == CHOOSE i \in 1..Len(questions) :
                    questions[i] = q /\ \A j \in 1..(i - 1) : questions[j] # q

CalledGroupTest == call.fn = "test_numeric_categorical"
CalledCorrelation == call.fn = "test_numeric_numeric"

\* the categories of g that some row has, as positions of df.strata
GroupsFound == {i \in 1..Len(df.strata[<<"g", "x">>]) : df.strata[<<"g", "x">>][i].rows >= 1}

\* the normality check on the x values of category i
GroupPasses(i) ==
    LET st == df.strata[<<"g", "x">>][i]
    IN  _is_normal([n |-> st.n, shapiro_p |-> st.shapiro_p])

\* the test named in the result the call returned, "" when it raised
ReportedTest == IF call.out.tag = "return" /\ call.out.value.kind = "dict"
                THEN call.out.value.d.test ELSE ""

Returned == call.out.tag = "return"

\* C3: with exactly two groups the t-test is selected if and only if both groups
\* pass the normality check, Mann-Whitney otherwise, and nothing else.
C3_TwoGroups ==
    (CalledGroupTest /\ Cardinality(GroupsFound) = 2) =>
        LET both == \A i \in GroupsFound : GroupPasses(i)
        IN  /\ call.out.routine = IF both THEN "ttest_ind" ELSE "mannwhitneyu"
            /\ Returned => ReportedTest = IF both THEN "T-TEST" ELSE "MANN-WHITNEY"

\* C3, its case: two groups, one of fewer than 3 values and one that passes the
\* Shapiro-Wilk test; Mann-Whitney was run and reported.
C3_Witness ==
    /\ CalledGroupTest
    /\ Cardinality(GroupsFound) = 2
    /\ \E i \in GroupsFound : GroupPasses(i)
    /\ \E i \in GroupsFound :
          df.strata[<<"g", "x">>][i].n \in 1..2
    /\ call.out.routine = "mannwhitneyu"
    /\ ReportedTest = "MANN-WHITNEY"

\* C4: with three or more groups ANOVA is selected if and only if every group
\* passes the normality check, Kruskal-Wallis otherwise, and nothing else.
C4_ManyGroups ==
    (CalledGroupTest /\ Cardinality(GroupsFound) >= 3) =>
        LET every == \A i \in GroupsFound : GroupPasses(i)
        IN  /\ call.out.routine = IF every THEN "f_oneway" ELSE "kruskal"
            /\ Returned => ReportedTest = IF every THEN "ANOVA" ELSE "KRUSKAL"

\* C4, its case: three groups of which exactly one fails the normality check
\* (its Shapiro-Wilk p-value is 0.05); Kruskal-Wallis was run and reported.
C4_Witness ==
    /\ CalledGroupTest
    /\ Cardinality(GroupsFound) = 3
    /\ Cardinality({i \in GroupsFound : ~GroupPasses(i)}) = 1
    /\ \E i \in GroupsFound : df.strata[<<"g", "x">>][i].shapiro_p = 50
    /\ ReportedTest = "KRUSKAL"

\* C5: test_numeric_numeric selects Pearson if and only if both columns, missing
\* values dropped, pass the normality check, and Spearman otherwise; the result it
\* returns names the method selected.
C5_PearsonIffNormal ==
    CalledCorrelation =>
        LET both == _is_normal(df.series["x"]) /\ _is_normal(df.series["y"])
        IN  /\ call.out.routine = IF both THEN "pearsonr" ELSE "spearmanr"
            /\ Returned =>
                  ReportedTest = IF both THEN "Pearson Correlation" ELSE "Spearman Correlation"

\* C5, its case: both columns pass and a Pearson correlation is reported.
C5_Witness ==
    /\ CalledCorrelation
    /\ _is_normal(df.series["x"])
    /\ _is_normal(df.series["y"])
    /\ ReportedTest = "Pearson Correlation"

\* C8, as claimed: when fewer than 2 groups hold a non-missing value, the call
\* returns the insufficient-groups message and runs no test.
C8_Claimed ==
    (CalledGroupTest
       /\ Cardinality({i \in GroupsFound : df.strata[<<"g", "x">>][i].n >= 1}) < 2) =>
        call.out = Return(Str("Not enough groups for hypothesis testing."), None)

CalledIsNormal == call.fn = "_is_normal"

\* C17: the normality check returns false without running a test on fewer than 3
\* values; otherwise it tests min(500, length) values, never more than 500 and
\* never more than the sample has.
C17_SubsampleBound ==
    CalledIsNormal =>
        LET n == call.series.n
            run == call.out
        IN  /\ n < 3 => (~run.tested /\ run.value = FALSE /\ run.examined = 0)
            /\ n >= 3 =>
                  /\ run.tested
                  /\ run.examined = IF n < 500 THEN n ELSE 500
                  /\ run.examined <= 500
                  /\ run.examined <= n

\* C17, its case: a sample of 501 values, of which 500 were tested.
C17_Witness ==
    /\ CalledIsNormal
    /\ call.series.n = 501
    /\ call.out.tested
    /\ call.out.examined = 500

\* the TestResult of the call: of a test function called directly, or of the
\* test function answer_questions called for its question
CalledTest ==
    call.fn \in {"test_numeric_categorical", "test_categorical_categorical",
                 "test_numeric_numeric"}
HasTestResult ==
    \/ CalledTest /\ call.out.tag = "return" /\ call.out.value.kind = "dict"
    \/ call.fn = "answer_questions" /\ call.out.result.kind = "dict"
TestResult == IF CalledTest THEN call.out.value.d ELSE call.out.result.d

\* C18: every TestResult records the caller's alpha (through answer_questions:
\* the alpha answer_questions was given) and is 'Significant' exactly when its
\* p-value is below alpha, strictly.
C18_AlphaAndSignificance ==
    HasTestResult =>
        /\ TestResult.alpha = alpha
        /\ TestResult.significance \in {"Significant", "Not significant"}
        /\ TestResult.significance = "Significant"
              <=> (TestResult.p_value # NaN /\ TestResult.p_value < alpha)

\* C18, its case: the p-value equals alpha and the result is 'Not significant'.
C18_Witness ==
    /\ HasTestResult
    /\ TestResult.p_value = alpha
    /\ TestResult.alpha = alpha
    /\ TestResult.significance = "Not significant"

\* C19: the strength is 'Strong' when |r| > 0.7, 'Moderate' when 0.3 < |r| <= 0.7
\* and 'Weak' otherwise (r in hundredths).
C19_StrengthLabels ==
    (CalledCorrelation /\ Returned) =>
        LET r == call.out.value.d.stat
            abs == IF r < 0 THEN 0 - r ELSE r
            label == call.out.value.d.correlation_strength
        IN  IF r = NaN THEN label = "Weak"
            ELSE /\ abs > 70 => label = "Strong"
                 /\ (30 < abs /\ abs <= 70) => label = "Moderate"
                 /\ abs <= 30 => label = "Weak"

\* C19, its case: r is exactly -0.7 and the label is 'Moderate'.
C19_Witness ==
    /\ CalledCorrelation
    /\ Returned
    /\ call.out.value.d.stat = 0 - 70
    /\ df.corr[<<"x", "y">>].Spearman = 0 - 70
    /\ call.out.value.d.correlation_strength = "Moderate"

(***************************************************************************)
(* Properties of generate_questions and of the pipeline (specifications   *)
(* SpecTests and SpecPipeline).                                            *)
(***************************************************************************)
Generated == call.fn = "generate_questions"

\* the questions of the correlation template among those generated
CorrelationQuestions ==
    SelectSeq(call.generated, LAMBDA g : Contains(g.text, " correlation (r="))

\* the pairs of numeric columns, in column order, whose coefficient is above 0.3
\* on the data the call saw
QualifyingPairs ==
    LET nums == NumericCols(call.seen)
    IN  SelectSeq(Pairs(Len(nums)),
                  LAMBDA pr : CorrCandidate(call.seen, nums[pr[1]], nums[pr[2]]).qualifies)

\* C13: generate_questions emits at most max_corr_questions correlation
\* questions, and they are the questions of the first qualifying pairs in column
\* order (specification SpecTests: the calls that pass a cap).
C13_CorrelationCap ==
    Generated =>
        LET nums == NumericCols(call.seen)
            emitted == CorrelationQuestions
            qual == QualifyingPairs
        IN  /\ Len(emitted) <= max_corr_questions
            /\ Len(emitted) = IF Len(qual) < max_corr_questions
                              THEN Len(qual) ELSE max_corr_questions
            /\ \A k \in 1..Len(emitted) :
                  /\ emitted[k].cols = <<nums[qual[k][1]], nums[qual[k][2]]>>
                  /\ emitted[k] = call.generated[k]

\* C13, its case: three pairs qualify, the cap is 2, and the questions of the
\* pairs (x, y) and (x, z) are emitted.
C13_Witness ==
    /\ Generated
    /\ max_corr_questions = 2
    /\ Len(QualifyingPairs) = 3
    /\ Len(CorrelationQuestions) = 2
    /\ CorrelationQuestions[1].cols = <<"x", "y">>
    /\ CorrelationQuestions[2].cols = <<"x", "z">>

\* C14, as claimed: the names a generated question embeds are columns of the
\* dataset and extract_columns_from_question returns exactly them, in order.
C14_Claimed ==
    Generated =>
        \A k \in 1..Len(call.generated) :
            /\ \A i \in 1..Len(call.generated[k].cols) :
                  call.generated[k].cols[i] \in SeqToSet(df.columns)
            /\ extract_columns_from_question(call.generated[k].text) = call.generated[k].cols

\* C16, as claimed: the two runs on the same dataset produce the same questions,
\* run the same tests and give the same answers.
C16_Claimed == Len(runs) = 2 => runs[1] = runs[2]

\* C20: no step of generate_questions or answer_questions (and of the test
\* functions it calls) changes the dataset.
C20_DatasetUnchanged == [][df' = df]_vars

\* C20, its case: both runs are over on a dataset with a missing value, outliers
\* and a duplicate row, whose group test and correlation test were answered.
C20_Witness ==
    /\ pc = "done"
    /\ Len(runs) = 2
    /\ df.duplicates = 1
    /\ df.descr[df.columns[1]].nulls = 1
    /\ \E i \in 1..Len(runs[2].tests) : runs[2].tests[i] = "ttest_ind"
    /\ \E i \in 1..Len(runs[2].tests) : runs[2].tests[i] \in {"pearsonr", "spearmanr"}

\* the method a correlation question names
NamedMethod(g) == IF Contains(g.text, " Pearson correlation (r=") THEN "Pearson" ELSE "Spearman"

\* C21, as claimed: a correlation question names Pearson exactly when both of
\* its columns pass _is_normal on the data the call saw (so a column with fewer
\* than 3 values forces Spearman).
C21_Claimed ==
    Generated =>
        \A k \in 1..Len(CorrelationQuestions) :
            LET g == CorrelationQuestions[k]
                series1 == call.seen.series[g.cols[1]]
                series2 == call.seen.series[g.cols[2]]
            IN  /\ NamedMethod(g) = "Pearson" <=> (_is_normal(series1) /\ _is_normal(series2))
                /\ (series1.n < 3 \/ series2.n < 3) => NamedMethod(g) = "Spearman"

\* C22, as claimed: when the two columns miss different numbers of values,
\* test_numeric_numeric still returns a result dict with a coefficient.
C22_Claimed ==
    (CalledCorrelation /\ df.descr["x"].nulls # df.descr["y"].nulls) =>
        /\ Returned
        /\ call.out.value.kind = "dict"
        /\ ReportedTest \in {"Pearson Correlation", "Spearman Correlation"}

(***************************************************************************)
(* One run of an entry point: main() of main.py (terminal) and main() of   *)
(* app.py (one execution of the Streamlit script).  Each stage is one call *)
(* of a collaborator inside the try block; the call returns or raises.     *)
(* The inputs of a run: the entry point, the stage whose call raises (or   *)
(* none), and for app.py whether a file is uploaded and whether the       *)
(* report button is pressed.                                               *)
(***************************************************************************)
Stages == <<"load", "clean", "profile", "generate", "answer", "visualise", "report">>

RunInputs ==
    {[entry |-> "main.py", fails |-> f, uploaded |-> TRUE, button |-> TRUE] :
        f \in SeqToSet(Stages) \cup {None}}
    \cup
    {[entry |-> "app.py", fails |-> f, uploaded |-> u, button |-> b] :
        f \in SeqToSet(Stages) \cup {None}, u \in BOOLEAN, b \in BOOLEAN}

InitRun ==
    /\ call \in RunInputs
    /\ df = [state |-> "none"]
    /\ pc = "load"
    /\ log = <<>>
    /\ escaped = FALSE
    /\ alpha \in Alphas
    /\ questions = <<>>
    /\ idx = 0
    /\ answers = <<>>
    /\ hypothesis_results = <<>>
    /\ max_corr_questions = DefaultCorrCap
    /\ runs = <<>>

\* a variant of AfterRaise whose handler lets the run go on with the next stage
AfterRaise_Continue(next) == next

\* except Exception as e: print(...) (main.py) / st.error(...); return (app.py):
\* no later statement of the run is executed
AfterRaise(next) == "failed"

\* the call of stage s inside the try block, followed by stage next
RunStage(s, next) ==
    /\ pc = s
    /\ log' = Append(log, [stage |-> s, ok |-> call.fails # s, dataset |-> df.state])
    /\ pc' = IF call.fails = s THEN AfterRaise(next) ELSE next
    /\ UNCHANGED <<alpha, questions, idx, answers, escaped, hypothesis_results, call,
                   max_corr_questions, runs>>

\* if uploaded_file is None: return (app.py)
NoUpload ==
    /\ pc = "load"
    /\ ~call.uploaded
    /\ pc' = "done"
    /\ UNCHANGED <<df, alpha, questions, idx, answers, escaped, hypothesis_results, log, call,
                   max_corr_questions, runs>>

\* df = DatasetLoader.load_full_dataset(path), and the column selection
LoadStage ==
    /\ call.uploaded
    /\ RunStage("load", "clean")
    /\ df' = IF call.fails = "load" THEN df ELSE [state |-> "loaded"]

\* result = DataCleaner.clean_data(df); df, cleaning_summary = result
CleanStage ==
    /\ RunStage("clean", "profile")
    /\ df' = IF call.fails = "clean" THEN df ELSE [state |-> "cleaned"]

\* profile_summary = DataProfiler.profile_data(df)
ProfileStage ==
    /\ RunStage("profile", "generate")
    /\ UNCHANGED df

\* questions = QuestionGenerator.generate_questions(df)
GenerateStage ==
    /\ RunStage("generate", "answer")
    /\ UNCHANGED df

\* answers = AnswerGenerator.answer_questions(df, questions)
AnswerStage ==
    /\ RunStage("answer", "visualise")
    /\ UNCHANGED df

\* plot_paths = visualization.create_visualizations(df); then the report:
\* always in main.py, in app.py if st.button("Generate PDF Report")
VisualiseStage ==
    /\ RunStage("visualise", IF call.entry = "main.py" \/ call.button THEN "report" ELSE "done")
    /\ UNCHANGED df

\* create_latex_report(...)
ReportStage ==
    /\ RunStage("report", "done")
    /\ UNCHANGED df

NextRun ==
    \/ NoUpload
    \/ LoadStage
    \/ CleanStage
    \/ ProfileStage
    \/ GenerateStage
    \/ AnswerStage
    \/ VisualiseStage
    \/ ReportStage

SpecRun == InitRun /\ [][NextRun]_vars

(***************************************************************************)
(* Properties of a run (specification SpecRun).                            *)
(***************************************************************************)
\* C23: the stages of a run happen in the order load, clean, profile, generate,
\* answer, visualise, report, each at most once; questions are generated and
\* answered on the cleaned dataset only, nothing cleans it afterwards, and after
\* a stage that raised no later stage runs.
C23_StageOrder ==
    /\ Len(log) <= Len(Stages)
    /\ \A i \in 1..Len(log) :
          /\ log[i].stage = Stages[i]
          /\ i < Len(log) => log[i].ok
          /\ log[i].stage \in {"generate", "answer"} =>
                (log[i].dataset = "cleaned" /\ log[2] = [stage |-> "clean", ok |-> TRUE, dataset |-> "loaded"])
          /\ log[i].stage = "clean" => i = 2
    /\ (Len(log) >= 1 /\ ~log[Len(log)].ok) => pc = "failed"

\* C23, its case: in app.py with the report button pressed the visualisation
\* raised after five stages that returned, and the run ended without a report.
C23_Witness ==
    /\ call.entry = "app.py"
    /\ call.button
    /\ pc = "failed"
    /\ Len(log) = 6
    /\ log[6] = [stage |-> "visualise", ok |-> FALSE, dataset |-> "cleaned"]
    /\ \A i \in 1..5 : log[i].ok

(***************************************************************************)
(* Further properties of the pipeline (specification SpecPipeline).        *)
(***************************************************************************)
\* the answered questions of the correlation template that reached a routine of
\* test_numeric_numeric, as positions of log
CorrelationAnswered ==
    {i \in 1..Len(log) : /\ Contains(log[i].q, " correlation (r=")
                         /\ log[i].out.routine \in {"pearsonr", "spearmanr"}}

\* C24, as claimed: on a dataset without a column above 500 values, the method a
\* generated correlation question names is the one test_numeric_numeric uses
\* when the question is answered.
C24_Claimed ==
    BigCols(df) = {} =>
        \A i \in CorrelationAnswered :
            log[i].out.routine =
                IF Contains(log[i].q, " Pearson correlation (r=") THEN "pearsonr" ELSE "spearmanr"

\* the words the skip test and the if/elif chain of answer_questions look for
Keywords ==
    SeqToSet(skip_patterns)
    \cup {"correlation", "skew", "kurtosis", "outlier", "different", "association",
          "missing", "duplicate", "trend"}

\* no column name holds a keyword or a single quote
PlainNames(d) ==
    \A c \in SeqToSet(d.columns) :
        /\ ~Contains(c, "'")
        /\ \A w \in Keywords : ~Contains(Lower(c), w)

\* the branch that matches the template a generated question was written from
TemplateBranch(q) ==
    CASE Contains(q, " correlation (r=") -> "correlation"
      [] Contains(q, " is highly skewed (skew=") -> "skew"
      [] Contains(q, " has high kurtosis (") -> "kurtosis"
      [] StartsWith(q, "Do the ") /\ Contains(q, " outliers in '") -> "outlier"
      [] StartsWith(q, "Do different '") -> "different"
      [] StartsWith(q, "Is there an association between '") -> "association"
      [] StartsWith(q, "With ") /\ Contains(q, "% missing in '") -> "missing"
      [] StartsWith(q, "Could duplicate rows ") -> "duplicate"
      [] StartsWith(q, "Are there seasonal or trend components in '") -> "trend"
      [] Contains(q, " change significantly over time based on '") -> "trend"
      [] OTHER -> "none"

TemplateBranchPool == [q \in GeneratedPool |-> TemplateBranch(q)]

\* C25, as claimed: on a dataset with plain column names every generated
\* question is handled by the branch that matches its template and receives an
\* entry, the question about a change over time included.
C25_Claimed ==
    (PlainNames(df) /\ pc \in {"answering", "answered"}) =>
        \A i \in 1..Len(log) :
            /\ log[i].out.branch = TemplateBranchPool[log[i].q]
            /\ HasKey(answers, log[i].q)

(***************************************************************************)
(* Further properties of answer_questions (specification Spec).            *)
(***************************************************************************)
\* the columns are of the types branch b works on
TypesFit(b, cols) ==
    LET numeric(c) == df.dtypes[c] \in {"int64", "float64"}
        categorical(c) == df.dtypes[c] \in {"object", "category"}
    IN  /\ \A k \in 1..Len(cols) : cols[k] \in DOMAIN df.dtypes
        /\ b = "correlation" => \A k \in 1..2 : numeric(cols[k])
        /\ b \in {"skew", "kurtosis", "outlier"} => numeric(cols[1])
        /\ b = "different" => (categorical(cols[1]) /\ numeric(cols[2]))
        /\ b = "association" => \A k \in 1..2 : categorical(cols[k])

\* a row of the dispatch table below the first matching one matches q as well,
\* and the columns are of the types its branch works on
LaterFit(q) ==
    LET rows == IF q \in DOMAIN MatchingRowsPool THEN MatchingRowsPool[q] ELSE MatchingRows(q)
    IN  \E k \in rows :
            /\ \E j \in rows : j < k
            /\ TypesFit(DispatchTable[k][1], Named(q))

\* C26: when the first matching branch finds a column of a type it cannot work
\* on, no later branch is tried, also when a later branch matches the question
\* and its columns: the question is handled by the first branch only, gets no
\* entry, and the dict is left as it was.
C26_OneBranch ==
    \A i \in 1..Len(log) :
        (log[i].out.branch # "simple" /\ TypeMismatch(log[i].q) /\ LaterFit(log[i].q)) =>
            /\ log[i].out.branch = FirstMatch(log[i].q)
            /\ log[i].out.tag = "skip"
            /\ After(i) = log[i].before

\* C26, its case: a question with the keywords correlation, different and
\* outlier about the categorical column g (two groups) and the numeric column x
\* was handled by the correlation branch and got no entry, although the
\* group-difference branch matches it and its columns.
C26_Witness ==
    /\ pc = "answered"
    /\ Len(log) = 1
    /\ log[1].q = "Is the Correlation of 'g' and 'x' different for outlier rows?"
    /\ Len(ObservedStrata(df, "g", "x")) = 2
    /\ TypeMismatch(log[1].q)
    /\ LaterFit(log[1].q)
    /\ log[1].out.branch = "correlation"
    /\ answers = <<>>

(***************************************************************************)
(* Further properties of the pipeline: column names that hold keywords.    *)
(***************************************************************************)
\* the position in log of a question is its position among those generated
AskedCols(i) == call.generated[i].cols

\* a quoted column of the i-th question holds a skip word as a whole word
NamesSkipWord(i) ==
    \E k \in 1..Len(AskedCols(i)) :
        \E w \in SeqToSet(skip_patterns) : WordSearch(w, Lower(AskedCols(i)[k]))

\* the row of the dispatch table of the template the i-th question was written from
OwnRow(i) ==
    CHOOSE k \in 1..Len(DispatchTable) : DispatchTable[k][1] = TemplateBranchPool[log[i].q]

\* the rows above it whose keyword a quoted column holds and whose column count
\* the question has
HigherRows(i) ==
    {k \in 1..(OwnRow(i) - 1) :
        /\ DispatchTable[k][2] \in {0 - 1, Len(AskedCols(i))}
        /\ \E j \in 1..Len(AskedCols(i)) : Contains(Lower(AskedCols(i)[j]), DispatchTable[k][1])}

OutlierQuestionsAbout(c) ==
    SelectSeq(call.generated,
              LAMBDA g : g.cols = <<c>> /\ TemplateBranchPool[g.text] = "outlier")

\* C28: the count an outlier question carries is the count its answer reports,
\* whenever the question is answered by the outlier branch; and an outlier
\* question is generated for a numeric column exactly when the count of values
\* outside Q1 - 1.5 IQR and Q3 + 1.5 IQR is above 0.
C28_SameOutlierCount ==
    pc \in {"answering", "answered"} =>
        /\ \A i \in 1..Len(log) :
              (TemplateBranchPool[log[i].q] = "outlier" /\ log[i].out.branch = "outlier"
                 /\ log[i].out.tag = "entry") =>
                  LET col == AskedCols(i)[1]
                      k == GenOutliers(call.seen, col)
                  IN  /\ k > 0
                      /\ log[i].q = "Do the " \o NatStr(k) \o " outliers in '" \o col
                            \o "' materially influence model parameters or statistical significance?"
                      /\ log[i].out.text = "'" \o col \o "' has " \o NatStr(k)
                            \o " outliers detected using IQR method."
        /\ \A k \in 1..Len(NumericCols(df)) :
              LET c == NumericCols(df)[k]
              IN  Len(OutlierQuestionsAbout(c)) = IF AnsOutliers(df, c) > 0 THEN 1 ELSE 0

\* C28, its case: the outlier question about x carried the count 2 and its
\* answer reports 2 outliers, on a dataset whose column y has none and no
\* outlier question.
C28_Witness ==
    /\ pc = "answered"
    /\ \E i \in 1..Len(log) :
          /\ log[i].q = "Do the 2 outliers in 'x' materially influence model parameters or statistical significance?"
          /\ log[i].out.text = "'x' has 2 outliers detected using IQR method."
          /\ HasKey(answers, log[i].q)
    /\ "y" \in DOMAIN df.series
    /\ AnsOutliers(df, "y") = 0
    /\ Len(OutlierQuestionsAbout("y")) = 0

(***************************************************************************)
(* Further properties of the test functions (specification SpecTests).     *)
(***************************************************************************)
CalledAssociation == call.fn = "test_categorical_categorical"

\* C29, as claimed: whenever the chi-square test is run on a non-empty table,
\* the divisor min(rows - 1, cols - 1) of the effect size is at least 1 and the
\* effect size is a number.
C29_Claimed ==
    (CalledAssociation /\ df.crosstab[<<"g", "h">>].r >= 1 /\ df.crosstab[<<"g", "h">>].k >= 1) =>
        /\ call.out.routine = "chi2_contingency"
        /\ CramersDivisor(df.crosstab[<<"g", "h">>]) >= 1
        /\ call.out.value.d.effect_size_cramers_v # NaN

====
